---- MODULE Spec2Model ----
(***************************************************************************)
(* Job orchestration of the CodeAgent scanner                              *)
(* (codeagent-scanner/pipeline/orchestrator.py, report_schema.py).         *)
(*                                                                         *)
(* One JobOrchestrator: the in-memory job table guarded by job_lock, the   *)
(* persisted job-state files, the report files, the execution thread of    *)
(* each job, cancel callers, the shared worker pool and the expiry sweep.  *)
(* A step of the model is one lock section or one statement executed       *)
(* outside the lock, so that every interleaving the threads allow occurs.  *)
(***************************************************************************)
EXTENDS Integers, Sequences, FiniteSets, TLC

(***************************************************************************)
(* The job ids (uuid4 strings) of the model.                               *)
(***************************************************************************)
\* The jobs of one orchestrator share the lock, whose sections are single
\* steps here, and the worker pool; Spec follows the job with this id.
Jobs == {"job-1"}

(***************************************************************************)
(* Optional values: None and Some(x).                                      *)
(***************************************************************************)
None == <<>>
Some(x) == <<x>>

(***************************************************************************)
(* report_schema.py: JobStatus, JobPhase, JobProgress, JobInfo.            *)
(***************************************************************************)
QUEUED == "queued"
RUNNING == "running"
COMPLETED == "completed"
FAILED == "failed"
CANCELED == "canceled"
EXPIRED == "expired"

JobStatus == {QUEUED, RUNNING, COMPLETED, FAILED, CANCELED, EXPIRED}

CLONE == "clone"
MERGE == "merge"
WRITE == "write"

JobPhase == {CLONE, "analyze:semgrep", "analyze:bandit", "analyze:depcheck", MERGE, WRITE}

JobProgress(phase, percent) == [phase |-> phase, percent |-> percent]

JobInfo(job_id, submitted_at) ==
    [job_id |-> job_id, status |-> QUEUED, progress |-> None,
     submitted_at |-> submitted_at, started_at |-> None,
     finished_at |-> None, error |-> None]

\* JobInfo.to_dict without the progress key
to_dict_without_progress(info) ==
    [job_id |-> info.job_id, status |-> info.status,
     submitted_at |-> info.submitted_at, started_at |-> info.started_at,
     finished_at |-> info.finished_at, error |-> info.error]

\* JobInfo.to_dict: the progress key is written only when progress is set.
to_dict(info) ==
    LET base == [job_id |-> info.job_id, status |-> info.status,
                 submitted_at |-> info.submitted_at, started_at |-> info.started_at,
                 finished_at |-> info.finished_at, error |-> info.error]
    IN  IF info.progress # None
          THEN [k \in DOMAIN base \cup {"progress"} |->
                   IF k = "progress" THEN info.progress[1] ELSE base[k]]
          ELSE base

\* Placeholder of a job id that was never submitted, and of a missing file.
NoJob == [job_id |-> None]
NoFile == [missing |-> TRUE]

(***************************************************************************)
(* analyzers: the registry filled by analyzers/__init__.py, the default    *)
(* set of the orchestrator's configuration, and what a run returns.        *)
(***************************************************************************)
Registered == {"semgrep", "bandit", "depcheck"}
defaults == <<"bandit", "semgrep", "depcheck">>

Issue(tool, type, severity, file, line) ==
    [tool |-> tool, type |-> type, severity |-> severity, file |-> file, line |-> line]

\* The findings a tool reports on the workspaces of the model.
IssuesOf(name) ==
    CASE name = "bandit"   -> << Issue("bandit", "B105", "high", "app.py", 3) >>
      [] name = "semgrep"  -> << Issue("semgrep", "B105", "high", "app.py", 3),
                                 Issue("semgrep", "eval", "critical", "lib.py", 7) >>
      [] name = "depcheck" -> << Issue("depcheck", "CVE", "medium", "requirements.txt", 1) >>
      [] OTHER             -> << >>

AnalyzerResult(tool_name, success, issues) ==
    [tool_name |-> tool_name, success |-> success, issues |-> issues]

\* Requests of the model: the source named, and the analyzers CSV parsed.
AnalyzeRequest(source, analyzers) == [source |-> source, analyzers |-> analyzers]
Requests == { AnalyzeRequest("none", << >>),
              AnalyzeRequest("github", << >>),
              AnalyzeRequest("zip", << "bandit" >>),
              AnalyzeRequest("github", << "eslint", "semgrep" >>) }


\* Workspaces of the model, by the files they hold after fetch and sanitize.
WorkspaceContents == { {}, {"app.py"}, {"requirements.txt"} }
PythonFiles == {"app.py", "lib.py"}
JsFiles == {"index.js"}
DependencyFiles == {"requirements.txt"}

(***************************************************************************)
(* analyzers/detect.py and AnalyzeRequest.get_analyzers_list.              *)
(***************************************************************************)
_is_analyzer_applicable(analyzer_name, files) ==
    CASE analyzer_name = "bandit"   -> files \cap PythonFiles # {}
      [] analyzer_name = "semgrep"  -> files \cap (PythonFiles \cup JsFiles) # {}
      [] analyzer_name = "depcheck" -> files \cap DependencyFiles # {}
      [] analyzer_name = "eslint"   -> files \cap JsFiles # {}
      [] OTHER                      -> TRUE

detect_applicable_analyzers(files, available_analyzers) ==
    LET applicable(a) == _is_analyzer_applicable(a, files)
    IN  SelectSeq(available_analyzers, applicable)

filter_analyzers_by_config(requested, allowed) ==
    LET ok(a) == a \in allowed
    IN  IF allowed = {} THEN requested ELSE SelectSeq(requested, ok)

\* allowed is what analyzer_registry.list_analyzers() returns
_select_analyzers(requested_list, allowed, files) ==
    LET requested == IF requested_list = << >> THEN defaults ELSE requested_list
        filtered == filter_analyzers_by_config(requested, allowed)
    IN  detect_applicable_analyzers(files, filtered)

\* getattr(JobPhase, "ANALYZE_<NAME>", JobPhase.MERGE)
AnalyzePhase(analyzer_name) ==
    IF analyzer_name \in {"semgrep", "bandit", "depcheck"}
      THEN "analyze:" \o analyzer_name
      ELSE MERGE

\* a progress that counts the analyzers from 1 over a span of 60
AnalyzePercent_overshooting(i, n) == 30 + ((60 * (i + 1)) \div n)

\* progress = 30 + (50 * i // len(analyzer_names)), i counted from 0
AnalyzePercent(i, n) == 30 + ((50 * i) \div n)

(***************************************************************************)
(* report_schema.py: ReportBuilder.                                        *)
(***************************************************************************)
RECURSIVE Concat(_)
Concat(seqs) == IF seqs = << >> THEN << >> ELSE Head(seqs) \o Concat(Tail(seqs))

\* The lexicographic order of the file paths of the model (sorted()).
PathOrder == << "app.py", "lib.py", "requirements.txt" >>

\* add_analyzer_result over the collected results, in order.
tools_used(analyzer_results) ==
    LET ok(r) == r.success
        good == SelectSeq(analyzer_results, ok)
    IN  [k \in 1..Len(good) |-> good[k].tool_name]

\* add_analyzer_result without the test of result.success
builder_issues_of_all(analyzer_results) ==
    Concat([k \in 1..Len(analyzer_results) |-> analyzer_results[k].issues])

\* add_analyzer_result keeping the first of equal findings of a result list
builder_issues_deduplicated(analyzer_results) ==
    LET all == Concat([k \in 1..Len(SelectSeq(analyzer_results, LAMBDA r : r.success)) |->
                          SelectSeq(analyzer_results, LAMBDA r : r.success)[k].issues])
        same(a, b) == a.file = b.file /\ a.line = b.line /\ a.type = b.type
        first(k) == \A n \in 1..(k - 1) : ~same(all[n], all[k])
        RECURSIVE keep(_)
        keep(k) == IF k > Len(all) THEN << >>
                   ELSE (IF first(k) THEN << all[k] >> ELSE << >>) \o keep(k + 1)
    IN  keep(1)

builder_issues(analyzer_results) ==
    LET ok(r) == r.success
        good == SelectSeq(analyzer_results, ok)
    IN  Concat([k \in 1..Len(good) |-> good[k].issues])

SeverityCount(issues, severity) ==
    Cardinality({k \in 1..Len(issues) : issues[k].severity = severity})

\* build_report with the files in the order their paths were first met
build_report_unsorted(job_id, repo_info, labels, analyzer_results) ==
    LET issues == builder_issues(analyzer_results)
        first(k) == \A n \in 1..(k - 1) : issues[n].file # issues[k].file
        RECURSIVE met(_)
        met(k) == IF k > Len(issues) THEN << >>
                  ELSE (IF first(k) THEN << issues[k].file >> ELSE << >>) \o met(k + 1)
        paths == met(1)
        of(path) == LET at(i) == i.file = path IN SelectSeq(issues, at)
    IN  [job_id |-> job_id,
         meta |-> [tools |-> tools_used(analyzer_results), repo |-> repo_info,
                   labels |-> labels],
         summary |-> [critical |-> SeverityCount(issues, "critical"),
                      high |-> SeverityCount(issues, "high"),
                      medium |-> SeverityCount(issues, "medium"),
                      low |-> SeverityCount(issues, "low")],
         files |-> [k \in 1..Len(paths) |-> [path |-> paths[k], issues |-> of(paths[k])]]]

\* build_report taking the labels of the report from the results added
build_report_labels_of_results(job_id, repo_info, labels, analyzer_results) ==
    build_report_unsorted(job_id, repo_info, tools_used(analyzer_results), analyzer_results)

build_report(job_id, repo_info, labels, analyzer_results) ==
    LET issues == builder_issues(analyzer_results)
        present(path) == \E k \in 1..Len(issues) : issues[k].file = path
        paths == SelectSeq(PathOrder, present)
        of(path) == LET at(i) == i.file = path IN SelectSeq(issues, at)
    IN  [job_id |-> job_id,
         meta |-> [tools |-> tools_used(analyzer_results), repo |-> repo_info,
                   labels |-> labels],
         summary |-> [critical |-> SeverityCount(issues, "critical"),
                      high |-> SeverityCount(issues, "high"),
                      medium |-> SeverityCount(issues, "medium"),
                      low |-> SeverityCount(issues, "low")],
         files |-> [k \in 1..Len(paths) |-> [path |-> paths[k], issues |-> of(paths[k])]]]

(***************************************************************************)
(* The state of one orchestrator.                                          *)
(***************************************************************************)
VARIABLES
    job_objs,        \* job id -> the JobInfo object made by submit_job (NoJob before)
    active_jobs,     \* the ids that are keys of self.active_jobs
    job_threads,     \* the ids that are keys of self.job_threads
    job_files,       \* job id -> content of logs/<id>.json, or NoFile
    report_files,    \* job id -> content of reports/<id>.json, or NoFile
    workspaces,      \* job id -> Some(files of workspace/<id>), or None
    events,          \* job id -> the events passed to the callbacks, in order
    request,         \* job id -> the AnalyzeRequest of the job
    pc,              \* job id -> statement the execution thread is at
    loc,             \* job id -> local variables of _execute_job
    futures,         \* job id -> the futures of _run_analyzers, in dispatch order
    cpc,             \* job id -> statement a cancel_job call is at
    cancel_ret,      \* job id -> value returned by the last cancel_job call
    canceled_from,   \* job id -> status seen by the first accepted cancel_job
    fetch_invoked,   \* job id -> _fetch_source has been called
    expired_jobs,    \* the list _cleanup_expired_jobs is working through
    gpc,             \* job id -> statement a get_job_status call is at
    status_ret,      \* job id -> what the get_job_status call is returning
    snapshots,       \* job id -> the to_dict() results of the _save_job_state calls
                     \* that have not written the file yet, by caller
    rb_added,        \* a ReportBuilder: the results passed to add_analyzer_result
    rb_report,       \* a ReportBuilder: Some(what build_report returned), or None
    rt_info,         \* a JobInfo handed to _save_job_state
    rt_file,         \* the state file _save_job_state wrote for it, or NoFile
    rt_loaded,       \* what _load_job_state returned for that file
    rt_state,        \* "new", "saved" or "loaded"
    event_callbacks, \* self.event_callbacks, in the order of registration
    cb_state,        \* an _emit_event call: "idle", "loop", "returned" or "raised"
    cb_event,        \* the event it was called with
    cb_i,            \* the position of its loop in event_callbacks
    cb_calls,        \* the callbacks it has invoked, and whether each raised
    rb_args,         \* a ReportBuilder: Some(the arguments of build_report), or None
    sel_registry,    \* an AnalyzerRegistry: the names registered in it
    sel_args,        \* a _select_analyzers call: Some(its request and workspace), or None
    sel_result,      \* Some(the list it returned), or None
    eng_pc,          \* pool job -> where its _run_analyzers call is
    eng_i,           \* pool job -> the position of its loop
    eng_results,     \* pool job -> the list results of its call: the tasks it holds
    work_queue,      \* the executor: the tasks submitted and not yet taken
    pool_running,    \* the executor: the tasks its worker threads are executing
    pool_done,       \* the executor: the tasks that returned, in the order they did
    eng_report,      \* pool job -> Some(the report built of its results), or None
    prog_pc,         \* a thread's walk through the progress calls of _execute_job
    prog_loc,        \* its analyzer_names and the position i of its dispatch loop
    prog_events,     \* the progress events it has emitted, in order
    nz_finding,      \* a finding of a tool's output: Some(its raw fields), or None
    nz_issue,        \* Some(the adapter's list of the Issue made of it), or None
    nz_reported,     \* Some(the issues the ReportBuilder holds for it), or None
    sw_pc,           \* the cleanup worker: the statement it is at
    sw_table,        \* the job table it sweeps: job id -> "absent", "live" or "expired"
    sw_expired,      \* the list expired_jobs of the pass, what is left of it
    sw_caught        \* the except clause the worker's last step went through

\* the orchestrator's state
job_vars == << job_objs, active_jobs, job_threads, job_files, report_files, workspaces,
               events, request, pc, loc, futures, cpc, cancel_ret, canceled_from,
               fetch_invoked, expired_jobs, gpc, status_ret, snapshots >>

\* a caller of get_job_status
reader_vars == << gpc, status_ret >>
NoReturn == [from |-> "no call"]
NoSnapshots == [thread |-> None, cancel |-> None]

\* the state of the components exercised on their own
builder_vars == << rb_added, rb_report, rb_args >>
state_file_vars == << rt_info, rt_file, rt_loaded, rt_state >>
callback_vars == << event_callbacks, cb_state, cb_event, cb_i, cb_calls >>
selector_vars == << sel_registry, sel_args, sel_result >>
pool_vars == << eng_pc, eng_i, eng_results, eng_report, work_queue, pool_running,
               pool_done >>
progress_vars == << prog_pc, prog_loc, prog_events >>
normalize_vars == << nz_finding, nz_issue, nz_reported >>
sweep_vars == << sw_pc, sw_table, sw_expired, sw_caught >>
unit_vars == << builder_vars, state_file_vars, callback_vars, selector_vars, pool_vars,
               progress_vars, normalize_vars, sweep_vars >>

vars == << job_vars, reader_vars, unit_vars >>

NoLocals == [start_time |-> None, end_time |-> None, exc |-> None,
             analyzer_names |-> << >>, i |-> 0, results |-> << >>, report |-> None]

\* no component is exercised on its own
BuilderIdle ==
    /\ rb_added = << >>
    /\ rb_report = None
    /\ rb_args = None

StateFileIdle ==
    /\ rt_info = NoJob
    /\ rt_file = NoFile
    /\ rt_loaded = None
    /\ rt_state = "new"

CallbacksIdle ==
    /\ event_callbacks = << >>
    /\ cb_state = "idle"
    /\ cb_event = None
    /\ cb_i = 0
    /\ cb_calls = << >>

SelectorIdle ==
    /\ sel_registry = {}
    /\ sel_args = None
    /\ sel_result = None

PoolJobs == {"job-1", "job-2"}

PoolIdle ==
    /\ eng_pc = [j \in PoolJobs |-> "not called"]
    /\ eng_i = [j \in PoolJobs |-> 0]
    /\ eng_results = [j \in PoolJobs |-> << >>]
    /\ work_queue = << >>
    /\ pool_running = {}
    /\ pool_done = << >>
    /\ eng_report = [j \in PoolJobs |-> None]

ProgressIdle ==
    /\ prog_pc = "not started"
    /\ prog_loc = [analyzer_names |-> << >>, i |-> 0]
    /\ prog_events = << >>

NormalizeIdle ==
    /\ nz_finding = None
    /\ nz_issue = None
    /\ nz_reported = None

SweepJobs == {"job-1", "job-2", "job-3"}

SweepIdle ==
    /\ sw_pc = "scan"
    /\ sw_table = [j \in SweepJobs |-> "absent"]
    /\ sw_expired = << >>
    /\ sw_caught = "none"

UnitsIdle ==
    /\ BuilderIdle /\ StateFileIdle /\ CallbacksIdle
    /\ SelectorIdle /\ PoolIdle /\ ProgressIdle
    /\ NormalizeIdle /\ SweepIdle

\* no job has been submitted
NoJobs ==
    /\ job_objs = [j \in Jobs |-> NoJob]
    /\ active_jobs = {}
    /\ job_threads = {}
    /\ job_files = [j \in Jobs |-> NoFile]
    /\ report_files = [j \in Jobs |-> NoFile]
    /\ workspaces = [j \in Jobs |-> None]
    /\ events = [j \in Jobs |-> << >>]
    /\ request = [j \in Jobs |-> AnalyzeRequest("none", << >>)]
    /\ pc = [j \in Jobs |-> "unborn"]
    /\ loc = [j \in Jobs |-> NoLocals]
    /\ futures = [j \in Jobs |-> << >>]
    /\ cpc = [j \in Jobs |-> "idle"]
    /\ cancel_ret = [j \in Jobs |-> "none"]
    /\ canceled_from = [j \in Jobs |-> "none"]
    /\ fetch_invoked = [j \in Jobs |-> FALSE]
    /\ expired_jobs = {}
    /\ gpc = [j \in Jobs |-> "idle"]
    /\ status_ret = [j \in Jobs |-> NoReturn]
    /\ snapshots = [j \in Jobs |-> NoSnapshots]

Init == NoJobs /\ UnitsIdle

(***************************************************************************)
(* Helpers shared by the operations.                                       *)
(***************************************************************************)
\* datetime.now().isoformat() read at a place of the code: the readings of
\* different places are different instants
Now(site) == Some("now@" \o site)

\* _save_job_state: json.dump(job_info.to_dict()) into logs/<id>.json
_save_job_state(j) == [job_files EXCEPT ![j] = to_dict(job_objs[j])]

\* _load_job_state finding no file, whatever is stored
_load_job_state_finds_nothing(file) == None

\* _load_job_state: None for a missing file and for a file whose status or
\* phase is no member of its enum (the exception is logged), else the
\* JobInfo made of the fields read
_load_job_state(file) ==
    IF file = NoFile THEN None
    ELSE IF file.status \notin JobStatus THEN None
    ELSE IF "progress" \in DOMAIN file /\ file.progress.phase \notin JobPhase THEN None
    ELSE Some([job_id |-> file.job_id, status |-> file.status,
               progress |-> IF "progress" \in DOMAIN file
                              THEN Some(JobProgress(file.progress.phase,
                                                    file.progress.percent))
                              ELSE None,
               submitted_at |-> file.submitted_at, started_at |-> file.started_at,
               finished_at |-> file.finished_at, error |-> file.error])

\* _emit_event: the event reaches the registered callbacks
_emit_event(j, event) == [events EXCEPT ![j] = Append(@, event)]

ProgressEvent(phase, percent) ==
    [type |-> "progress", phase |-> phase, percent |-> percent]
\* the data of the three finished events (lines 160, 248-252, 265-269)
FinishedEvent(status) == [type |-> "finished", status |-> status]
CompletedEvent(j, summary) ==
    [type |-> "finished", job_id |-> j, status |-> COMPLETED, summary |-> summary]
FailedEvent(j, error) ==
    [type |-> "finished", job_id |-> j, status |-> FAILED, error |-> error]

\* the assignments of _update_job_status under the lock: line 403, and the
\* setattr loop of lines 405-407
StatusAssigned(info, status) == [info EXCEPT !.status = status]
KwargsSet(info, kwargs) ==
    [k \in DOMAIN info |-> IF k \in DOMAIN kwargs THEN kwargs[k] ELSE info[k]]

\* job_lock is held between two assignments of a writer's lock section; every
\* other lock section of the model is one step
LockHeld ==
    \E j \in Jobs : pc[j] \in {"run_set", "done_set", "fail_set"} \/ cpc[j] = "set"

UnboundLocal == "cannot access local variable 'job_info'"

(***************************************************************************)
(* submit_job                                                              *)
(***************************************************************************)
\* the id is a new uuid4: no call that names it is under way
submit(j, requests) ==
    /\ ~LockHeld
    /\ job_objs[j] = NoJob
    /\ gpc[j] = "idle"
    /\ \E req \in requests : request' = [request EXCEPT ![j] = req]
    /\ job_objs' = [job_objs EXCEPT ![j] = JobInfo(j, Now("submit"))]
    /\ active_jobs' = active_jobs \cup {j}
    /\ job_files' = [job_files EXCEPT ![j] = to_dict(JobInfo(j, Now("submit")))]
    /\ job_threads' = job_threads \cup {j}
    /\ pc' = [pc EXCEPT ![j] = "start"]
    /\ UNCHANGED << report_files, workspaces, events, loc, futures, cpc, cancel_ret,
                    canceled_from, fetch_invoked, expired_jobs, reader_vars, snapshots,
                    unit_vars >>

submit_job(j) == submit(j, Requests)

(***************************************************************************)
(* cancel_job: the lock section, then the save and the event outside it.   *)
(* A call that finds nothing to cancel returns False from the lock section.*)
(* cpc follows the one accepted call that is between its lock section and  *)
(* its return.                                                             *)
(***************************************************************************)
\* line 151 with COMPLETED let through
Cancelable_lax(info) == info.status \in {QUEUED, RUNNING, COMPLETED}

\* line 151 with FAILED let through
Cancelable_failed(info) == info.status \in {QUEUED, RUNNING, FAILED}

\* line 151: the statuses cancel_job accepts
Cancelable(info) == info.status \in {QUEUED, RUNNING}

cancel_job_lock(j) ==
    /\ ~LockHeld
    /\ IF j \in active_jobs /\ Cancelable(job_objs[j])
         THEN /\ cpc[j] = "idle"
              /\ job_objs' = [job_objs EXCEPT ![j] = [@ EXCEPT !.status = CANCELED]]
              /\ cpc' = [cpc EXCEPT ![j] = "set"]
              /\ canceled_from' = [canceled_from EXCEPT ![j] =
                     IF @ = "none" THEN job_objs[j].status ELSE @]
              /\ UNCHANGED cancel_ret
         ELSE /\ cancel_ret' = [cancel_ret EXCEPT ![j] = "false"]
              /\ UNCHANGED << job_objs, cpc, canceled_from >>
    /\ UNCHANGED << active_jobs, job_threads, job_files, report_files, workspaces,
                    events, request, pc, loc, futures, fetch_invoked, expired_jobs,
                    reader_vars, snapshots, unit_vars >>

\* line 155, still under the lock
cancel_job_set(j) ==
    /\ cpc[j] = "set"
    /\ job_objs' = [job_objs EXCEPT ![j] = [@ EXCEPT !.finished_at = Now("cancel")]]
    /\ cpc' = [cpc EXCEPT ![j] = "save"]
    /\ UNCHANGED << active_jobs, job_threads, job_files, report_files, workspaces,
                    events, request, pc, loc, futures, cancel_ret, canceled_from,
                    fetch_invoked, expired_jobs, reader_vars, snapshots,
                    unit_vars >>

cancel_job_save(j) ==
    /\ cpc[j] = "save"
    /\ job_files' = _save_job_state(j)
    /\ cpc' = [cpc EXCEPT ![j] = "emit"]
    /\ UNCHANGED << job_objs, active_jobs, job_threads, report_files, workspaces,
                    events, request, pc, loc, futures, cancel_ret, canceled_from,
                    fetch_invoked, expired_jobs, reader_vars, snapshots,
                    unit_vars >>

\* line 159 in two steps: _save_job_state evaluates job_info.to_dict(), and
\* what it dumped reaches the file when the file is closed
cancel_job_dump(j) ==
    /\ cpc[j] = "save"
    /\ snapshots' = [snapshots EXCEPT ![j].cancel = Some(to_dict(job_objs[j]))]
    /\ cpc' = [cpc EXCEPT ![j] = "write"]
    /\ UNCHANGED << job_objs, active_jobs, job_threads, job_files, report_files,
                    workspaces, events, request, pc, loc, futures, cancel_ret,
                    canceled_from, fetch_invoked, expired_jobs, reader_vars, unit_vars >>

cancel_job_write(j) ==
    /\ cpc[j] = "write"
    /\ job_files' = [job_files EXCEPT ![j] = snapshots[j].cancel[1]]
    /\ snapshots' = [snapshots EXCEPT ![j].cancel = None]
    /\ cpc' = [cpc EXCEPT ![j] = "emit"]
    /\ UNCHANGED << job_objs, active_jobs, job_threads, report_files, workspaces,
                    events, request, pc, loc, futures, cancel_ret, canceled_from,
                    fetch_invoked, expired_jobs, reader_vars, unit_vars >>

cancel_job_emit(j) ==
    /\ cpc[j] = "emit"
    /\ events' = _emit_event(j, FinishedEvent(CANCELED))
    /\ cpc' = [cpc EXCEPT ![j] = "idle"]
    /\ cancel_ret' = [cancel_ret EXCEPT ![j] = "true"]
    /\ UNCHANGED << job_objs, active_jobs, job_threads, job_files, report_files,
                    workspaces, request, pc, loc, futures, canceled_from,
                    fetch_invoked, expired_jobs, reader_vars, snapshots,
                    unit_vars >>

(***************************************************************************)
(* _execute_job, statement by statement.  An exception raised inside the   *)
(* try block enters the handler (lines 256-269), which reads the clock for *)
(* finished_at.                                                            *)
(***************************************************************************)
ThreadSaveVarsUnchanged ==
    UNCHANGED << active_jobs, job_threads, cpc, cancel_ret, canceled_from,
                 expired_jobs, request, reader_vars, unit_vars >>

ThreadVarsUnchanged == ThreadSaveVarsUnchanged /\ UNCHANGED snapshots

\* raise inside the try block: control passes to the except clause
Raise(j, text) ==
    /\ pc' = [pc EXCEPT ![j] = "fail_lock"]
    /\ loc' = [loc EXCEPT ![j] = [@ EXCEPT !.exc = Some(text), !.end_time = Now("except")]]

execute_start(j) ==
    /\ pc[j] = "start"
    /\ loc' = [loc EXCEPT ![j] = [@ EXCEPT !.start_time = Now("start")]]
    /\ pc' = [pc EXCEPT ![j] = "run_lock"]
    /\ UNCHANGED << job_objs, job_files, report_files, workspaces, events, futures,
                    fetch_invoked >>
    /\ ThreadVarsUnchanged

\* the three calls of _update_job_status in _execute_job
StatusCalls == {"run", "done", "fail"}
StatusOf(call) ==
    CASE call = "run" -> RUNNING [] call = "done" -> COMPLETED [] call = "fail" -> FAILED
KwargsOf(call, locals) ==
    CASE call = "run"  -> [started_at |-> locals.start_time]
      [] call = "done" -> [finished_at |-> locals.end_time]
      [] call = "fail" -> [finished_at |-> locals.end_time, error |-> locals.exc]
AfterStatus(call) ==
    CASE call = "run" -> "p10_lock" [] call = "done" -> "done_emit" [] call = "fail" -> "fail_emit"

\* lines 400-409; with the id missing from the table, line 411 reads the
\* unassigned local job_info and raises: inside the try block the handler
\* takes over, inside the handler the exception leaves the thread
_update_job_status_lock(j, call) ==
    /\ ~LockHeld
    /\ pc[j] = call \o "_lock"
    /\ IF j \in active_jobs
         THEN /\ job_objs' = [job_objs EXCEPT ![j] = StatusAssigned(@, StatusOf(call))]
              /\ pc' = [pc EXCEPT ![j] = call \o "_set"]
              /\ UNCHANGED loc
         ELSE /\ IF call = "fail"
                   THEN /\ pc' = [pc EXCEPT ![j] = "crashed"]
                        /\ UNCHANGED loc
                   ELSE Raise(j, UnboundLocal)
              /\ UNCHANGED job_objs
    /\ UNCHANGED << job_files, report_files, workspaces, events, futures, fetch_invoked >>
    /\ ThreadVarsUnchanged

\* lines 405-409, still under the lock
_update_job_status_kwargs(j, call) ==
    /\ pc[j] = call \o "_set"
    /\ job_objs' = [job_objs EXCEPT ![j] = KwargsSet(@, KwargsOf(call, loc[j]))]
    /\ pc' = [pc EXCEPT ![j] = call \o "_save"]
    /\ UNCHANGED << job_files, report_files, workspaces, events, futures, loc,
                    fetch_invoked >>
    /\ ThreadVarsUnchanged

\* line 411
_update_job_status_save(j, call) ==
    /\ pc[j] = call \o "_save"
    /\ job_files' = _save_job_state(j)
    /\ pc' = [pc EXCEPT ![j] = AfterStatus(call)]
    /\ UNCHANGED << job_objs, report_files, workspaces, events, futures, loc,
                    fetch_invoked >>
    /\ ThreadVarsUnchanged

\* line 411 in two steps: _save_job_state evaluates job_info.to_dict(), and
\* what it dumped reaches the file when the file is closed
_update_job_status_dump(j, call) ==
    /\ pc[j] = call \o "_save"
    /\ snapshots' = [snapshots EXCEPT ![j].thread = Some(to_dict(job_objs[j]))]
    /\ pc' = [pc EXCEPT ![j] = call \o "_write"]
    /\ UNCHANGED << job_objs, job_files, report_files, workspaces, events, futures, loc,
                    fetch_invoked >>
    /\ ThreadSaveVarsUnchanged

_update_job_status_write(j, call) ==
    /\ pc[j] = call \o "_write"
    /\ job_files' = [job_files EXCEPT ![j] = snapshots[j].thread[1]]
    /\ snapshots' = [snapshots EXCEPT ![j].thread = None]
    /\ pc' = [pc EXCEPT ![j] = AfterStatus(call)]
    /\ UNCHANGED << job_objs, report_files, workspaces, events, futures, loc,
                    fetch_invoked >>
    /\ ThreadSaveVarsUnchanged

\* the calls of _update_job_progress in _execute_job and _run_analyzers
ProgressCalls == {"p10", "p20", "an", "p85", "p95"}
PhaseOf(call, locals) ==
    CASE call \in {"p10", "p20"} -> CLONE
      [] call = "an"  -> AnalyzePhase(locals.analyzer_names[locals.i + 1])
      [] call = "p85" -> MERGE
      [] call = "p95" -> WRITE
PercentOf(call, locals) ==
    CASE call = "p10" -> 10
      [] call = "p20" -> 20
      [] call = "an"  -> AnalyzePercent(locals.i, Len(locals.analyzer_names))
      [] call = "p85" -> 85
      [] call = "p95" -> 95
\* _execute_job going from the WRITE progress call straight to the final
\* status update, without _save_report
AfterProgress_without_save(call) ==
    CASE call = "p10" -> "fetch"
      [] call = "p20" -> "sanitize"
      [] call = "an"  -> "an_submit"
      [] call = "p85" -> "create_report"
      [] call = "p95" -> "done_lock"

AfterProgress(call) ==
    CASE call = "p10" -> "fetch"
      [] call = "p20" -> "sanitize"
      [] call = "an"  -> "an_submit"
      [] call = "p85" -> "create_report"
      [] call = "p95" -> "save_report"

\* lines 415-419
_update_job_progress_lock(j, call) ==
    /\ ~LockHeld
    /\ pc[j] = call \o "_lock"
    /\ job_objs' = IF j \in active_jobs
                     THEN [job_objs EXCEPT ![j] = [@ EXCEPT !.progress =
                             Some(JobProgress(PhaseOf(call, loc[j]), PercentOf(call, loc[j])))]]
                     ELSE job_objs
    /\ pc' = [pc EXCEPT ![j] = call \o "_emit"]
    /\ UNCHANGED << job_files, report_files, workspaces, events, futures, loc,
                    fetch_invoked >>
    /\ ThreadVarsUnchanged

\* lines 422-425
_update_job_progress_emit(j, call) ==
    /\ pc[j] = call \o "_emit"
    /\ events' = _emit_event(j, ProgressEvent(PhaseOf(call, loc[j]), PercentOf(call, loc[j])))
    /\ pc' = [pc EXCEPT ![j] = AfterProgress(call)]
    /\ UNCHANGED << job_objs, job_files, report_files, workspaces, futures, loc,
                    fetch_invoked >>
    /\ ThreadVarsUnchanged

\* _fetch_source: a request naming neither source raises ValueError; a clone
\* or an extraction either materializes the workspace or raises
_fetch_source(j) ==
    /\ pc[j] = "fetch"
    /\ fetch_invoked' = [fetch_invoked EXCEPT ![j] = TRUE]
    /\ \/ /\ request[j].source = "none"
          /\ Raise(j, "Either github_url or file must be provided")
          /\ UNCHANGED workspaces
       \/ /\ request[j].source # "none"
          /\ \E files \in WorkspaceContents :
                workspaces' = [workspaces EXCEPT ![j] = Some(files)]
          /\ pc' = [pc EXCEPT ![j] = "p20_lock"]
          /\ UNCHANGED loc
       \/ /\ request[j].source # "none"
          /\ Raise(j, "fetch failed")
          /\ UNCHANGED workspaces
    /\ UNCHANGED << job_objs, job_files, report_files, events, futures >>
    /\ ThreadVarsUnchanged

_sanitize_workspace(j) ==
    /\ pc[j] = "sanitize"
    /\ \/ /\ pc' = [pc EXCEPT ![j] = "select"]
          /\ UNCHANGED loc
       \/ Raise(j, "sanitize failed")
    /\ UNCHANGED << job_objs, job_files, report_files, workspaces, events, futures,
                    fetch_invoked >>
    /\ ThreadVarsUnchanged

\* line 229, and the empty case of _run_analyzers (lines 331-333)
select_analyzers_step(j) ==
    /\ pc[j] = "select"
    /\ \/ LET files == IF workspaces[j] = None THEN {} ELSE workspaces[j][1]
              names == _select_analyzers(request[j].analyzers, Registered, files)
          IN  /\ loc' = [loc EXCEPT ![j] = [@ EXCEPT !.analyzer_names = names, !.i = 0]]
              /\ pc' = [pc EXCEPT ![j] = IF names = << >> THEN "p85_lock" ELSE "an_lock"]
       \/ Raise(j, "selection failed")
    /\ UNCHANGED << job_objs, job_files, report_files, workspaces, events, futures,
                    fetch_invoked >>
    /\ ThreadVarsUnchanged

\* lines 343-350: an unregistered name is skipped, a registered one is
\* submitted to the pool, where a worker is free for it (one job never has
\* more than three futures); after the last name the collection loop starts
dispatch_analyzer(j) ==
    /\ pc[j] = "an_submit"
    /\ LET name == loc[j].analyzer_names[loc[j].i + 1]
           last == loc[j].i + 1 = Len(loc[j].analyzer_names)
           submitted == IF name \in Registered
                          THEN Append(futures[j], [name |-> name, state |-> "running", run |-> "",
                                                   result |-> None, error |-> None])
                          ELSE futures[j]
       IN  /\ futures' = [futures EXCEPT ![j] = submitted]
           /\ loc' = [loc EXCEPT ![j] = [@ EXCEPT !.i = IF last THEN 0 ELSE @ + 1]]
           /\ pc' = [pc EXCEPT ![j] =
                 IF ~last THEN "an_lock"
                 ELSE IF submitted = << >> THEN "p85_lock" ELSE "collect"]
    /\ UNCHANGED << job_objs, job_files, report_files, workspaces, events,
                    fetch_invoked >>
    /\ ThreadVarsUnchanged

\* what future.result(timeout=600) does: it returns the result of a run
\* that returned, raises the exception of a run that raised, and raises
\* TimeoutError for a run that is not done when the wait ends
FutureOutcome(future) ==
    CASE future.state = "returned" -> [raised |-> FALSE, value |-> future.result[1]]
      [] future.state = "raised"   -> [raised |-> TRUE, value |-> future.error[1]]
      [] OTHER                     -> [raised |-> TRUE, value |-> "TimeoutError"]

\* the loop goes on with the next future, or ends after the last one
NextFuture(j, last) ==
    /\ pc' = [pc EXCEPT ![j] = IF last THEN "p85_lock" ELSE "collect"]

\* lines 358-360 without the except clause: the exception leaves the loop
collect_except_propagates(j, last, error) == Raise(j, error)

\* lines 358-360: the exception is logged and the loop continues
collect_except(j, last, error) ==
    /\ loc' = [loc EXCEPT ![j] = [@ EXCEPT !.i = IF last THEN 0 ELSE @ + 1]]
    /\ NextFuture(j, last)

\* lines 353-360 with future.result() given no timeout: the loop waits for
\* a future until its run has returned or raised
collect_result_without_timeout(j) ==
    /\ pc[j] = "collect"
    /\ futures[j][loc[j].i + 1].state # "running"
    /\ LET k == loc[j].i + 1
           outcome == FutureOutcome(futures[j][k])
           last == k = Len(futures[j])
       IN  IF outcome.raised
             THEN collect_except(j, last, outcome.value)
             ELSE /\ loc' = [loc EXCEPT ![j] = [@ EXCEPT
                               !.results = Append(@, outcome.value),
                               !.i = IF last THEN 0 ELSE @ + 1]]
                  /\ NextFuture(j, last)
    /\ UNCHANGED << job_objs, job_files, report_files, workspaces, events, futures,
                    fetch_invoked >>
    /\ ThreadVarsUnchanged

\* lines 353-360: one iteration of the collection loop
collect_result(j) ==
    /\ pc[j] = "collect"
    /\ LET k == loc[j].i + 1
           outcome == FutureOutcome(futures[j][k])
           last == k = Len(futures[j])
       IN  IF outcome.raised
             THEN collect_except(j, last, outcome.value)
             ELSE /\ loc' = [loc EXCEPT ![j] = [@ EXCEPT
                               !.results = Append(@, outcome.value),
                               !.i = IF last THEN 0 ELSE @ + 1]]
                  /\ NextFuture(j, last)
    /\ UNCHANGED << job_objs, job_files, report_files, workspaces, events, futures,
                    fetch_invoked >>
    /\ ThreadVarsUnchanged

RepoInfo(req) == [source |-> IF req.source = "github" THEN "github" ELSE "zip"]

_create_report(j) ==
    /\ pc[j] = "create_report"
    /\ \/ /\ loc' = [loc EXCEPT ![j] = [@ EXCEPT !.report =
                        Some(build_report(j, RepoInfo(request[j]), << >>, loc[j].results))]]
          /\ pc' = [pc EXCEPT ![j] = "p95_lock"]
       \/ Raise(j, "report build failed")
    /\ UNCHANGED << job_objs, job_files, report_files, workspaces, events, futures,
                    fetch_invoked >>
    /\ ThreadVarsUnchanged

\* _save_report, then line 241 reads the clock
_save_report(j) ==
    /\ pc[j] = "save_report"
    /\ \/ /\ report_files' = [report_files EXCEPT ![j] = loc[j].report[1]]
          /\ loc' = [loc EXCEPT ![j] = [@ EXCEPT !.end_time = Now("end")]]
          /\ pc' = [pc EXCEPT ![j] = "done_lock"]
       \/ /\ Raise(j, "report write failed")
          /\ UNCHANGED report_files
    /\ UNCHANGED << job_objs, job_files, workspaces, events, futures, fetch_invoked >>
    /\ ThreadVarsUnchanged

\* lines 248-252 and 265-269: the finished event, then the thread ends
emit_finished(j, call) ==
    /\ pc[j] = call \o "_emit"
    /\ events' = _emit_event(j, IF call = "done"
                                   THEN CompletedEvent(j, loc[j].report[1].summary)
                                   ELSE FailedEvent(j, loc[j].exc[1]))
    /\ pc' = [pc EXCEPT ![j] = "finished"]
    /\ UNCHANGED << job_objs, job_files, report_files, workspaces, futures, loc,
                    fetch_invoked >>
    /\ ThreadVarsUnchanged

(***************************************************************************)
(* The worker pool (ThreadPoolExecutor) running analyzer.run_analysis.     *)
(***************************************************************************)
AnalyzerError(name) == "run_analysis of " \o name \o " raised"

\* how the tool's own run ends inside run_analysis: the subprocess exits with
\* code 0 or 1, exits with a code above 1, or _run_command raises
\* (TimeoutExpired after timeout_sec, or any other exception); for depcheck
\* also the scan for dependency files raising
ToolOutcomes(name) ==
    {"ok", "exit_error", "timeout"} \cup (IF name = "depcheck" THEN {"scan_error"} ELSE {})

\* run_analysis of semgrep_runner.py and bandit_runner.py: the output file is
\* parsed whenever it exists, success is returncode in [0, 1], and an
\* exception leaves issues empty and success False.  run_analysis of
\* depcheck_runner.py: _analyze_python_requirements catches the timeout and
\* every exception of pip-audit itself and ignores its return code, so that
\* success is True on every path but a failing scan for dependency files
run_analysis(name, outcome) ==
    IF name = "depcheck"
      THEN CASE outcome = "ok"         -> AnalyzerResult(name, TRUE, IssuesOf(name))
             [] outcome = "exit_error" -> AnalyzerResult(name, TRUE, IssuesOf(name))
             [] outcome = "timeout"    -> AnalyzerResult(name, TRUE, << >>)
             [] OTHER                  -> AnalyzerResult(name, FALSE, << >>)
      ELSE CASE outcome = "ok"         -> AnalyzerResult(name, TRUE, IssuesOf(name))
             [] outcome = "exit_error" -> AnalyzerResult(name, FALSE, IssuesOf(name))
             [] OTHER                  -> AnalyzerResult(name, FALSE, << >>)

\* run_analysis returns a result (success or not) or raises; a run the
\* collection loop has given up on or passed is no longer followed
executor_finish(j, k) ==
    /\ k <= Len(futures[j])
    /\ futures[j][k].state = "running"
    /\ pc[j] \in {"an_lock", "an_emit", "an_submit"} \/ (pc[j] = "collect" /\ k > loc[j].i)
    /\ LET name == futures[j][k].name
       IN  \/ \E outcome \in ToolOutcomes(name) :
                futures' = [futures EXCEPT ![j][k] = [@ EXCEPT !.state = "returned",
                              !.run = outcome,
                              !.result = Some(run_analysis(name, outcome))]]
           \/ futures' = [futures EXCEPT ![j][k] = [@ EXCEPT !.state = "raised",
                              !.error = Some(AnalyzerError(name))]]
    /\ UNCHANGED << job_objs, active_jobs, job_threads, job_files, report_files,
                    workspaces, events, request, pc, loc, cpc, cancel_ret,
                    canceled_from, fetch_invoked, expired_jobs, reader_vars, snapshots,
                    unit_vars >>

(***************************************************************************)
(* The expiry sweep: _cleanup_expired_jobs and cleanup_job.                *)
(***************************************************************************)
Terminal == {COMPLETED, FAILED, CANCELED}

SweepVarsUnchanged ==
    UNCHANGED << job_objs, report_files, events, request, pc, loc, futures, cpc,
                 cancel_ret, canceled_from, fetch_invoked, reader_vars, snapshots, unit_vars >>

\* line 502, for a job submitted before the cutoff
Expired(info) == info.status \in Terminal

\* lines 496-503, under the lock; old is the set of jobs whose submitted_at
\* lies more than seven days before this pass
_cleanup_expired_jobs ==
    /\ ~LockHeld
    /\ expired_jobs = {}
    /\ \E old \in SUBSET active_jobs :
          expired_jobs' = { j \in old : Expired(job_objs[j]) }
    /\ expired_jobs' # {}
    /\ UNCHANGED << active_jobs, job_threads, job_files, workspaces >>
    /\ SweepVarsUnchanged

\* lines 505-507 and cleanup_job
cleanup_job(j) ==
    /\ ~LockHeld
    /\ j \in expired_jobs
    /\ expired_jobs' = expired_jobs \ {j}
    /\ workspaces' = [workspaces EXCEPT ![j] = None]
    /\ job_files' = [job_files EXCEPT ![j] = NoFile]
    /\ active_jobs' = active_jobs \ {j}
    /\ job_threads' = job_threads \ {j}
    /\ SweepVarsUnchanged

(***************************************************************************)
(* get_job_status: the table is read under the lock; for an id that is not *)
(* in it the state file is read outside the lock.  What is returned for an *)
(* id in the table is the JobInfo object of the table itself.              *)
(***************************************************************************)
get_job_status_lock(j) ==
    /\ ~LockHeld
    /\ gpc[j] = "idle"
    /\ IF j \in active_jobs
         THEN /\ gpc' = [gpc EXCEPT ![j] = "return"]
              /\ status_ret' = [status_ret EXCEPT ![j] = [from |-> "memory"]]
         ELSE /\ gpc' = [gpc EXCEPT ![j] = "load"]
              /\ UNCHANGED status_ret
    /\ UNCHANGED << job_objs, active_jobs, job_threads, job_files, report_files,
                    workspaces, events, request, pc, loc, futures, cpc, cancel_ret,
                    canceled_from, fetch_invoked, expired_jobs, snapshots,
                    unit_vars >>

\* lines 111-115
get_job_status_load(j) ==
    /\ gpc[j] = "load"
    /\ LET loaded == _load_job_state(job_files[j])
       IN  status_ret' = [status_ret EXCEPT ![j] =
              IF loaded = None THEN [from |-> "nowhere"]
                               ELSE [from |-> "file", info |-> loaded[1]]]
    /\ gpc' = [gpc EXCEPT ![j] = "return"]
    /\ UNCHANGED << job_objs, active_jobs, job_threads, job_files, report_files,
                    workspaces, events, request, pc, loc, futures, cpc, cancel_ret,
                    canceled_from, fetch_invoked, expired_jobs, snapshots,
                    unit_vars >>

get_job_status_return(j) ==
    /\ gpc[j] = "return"
    /\ gpc' = [gpc EXCEPT ![j] = "idle"]
    /\ status_ret' = [status_ret EXCEPT ![j] = NoReturn]
    /\ UNCHANGED << job_objs, active_jobs, job_threads, job_files, report_files,
                    workspaces, events, request, pc, loc, futures, cpc, cancel_ret,
                    canceled_from, fetch_invoked, expired_jobs, snapshots,
                    unit_vars >>

(***************************************************************************)
(* The orchestrator.                                                       *)
(***************************************************************************)
MaxFutures == Len(defaults)

\* a step of a canceller, of the execution thread, of the worker pool or of
\* the expiry sweep
\* the steps other than those of _save_job_state
Steps(j) ==
    \/ cancel_job_lock(j)
    \/ cancel_job_set(j)
    \/ cancel_job_emit(j)
    \/ execute_start(j)
    \/ \E call \in StatusCalls : _update_job_status_lock(j, call)
    \/ \E call \in StatusCalls : _update_job_status_kwargs(j, call)
    \/ \E call \in ProgressCalls : _update_job_progress_lock(j, call)
    \/ \E call \in ProgressCalls : _update_job_progress_emit(j, call)
    \/ _fetch_source(j)
    \/ _sanitize_workspace(j)
    \/ select_analyzers_step(j)
    \/ dispatch_analyzer(j)
    \/ collect_result(j)
    \/ _create_report(j)
    \/ _save_report(j)
    \/ \E call \in {"done", "fail"} : emit_finished(j, call)
    \/ \E k \in 1..MaxFutures : executor_finish(j, k)
    \/ _cleanup_expired_jobs
    \/ cleanup_job(j)

\* every _save_job_state call taken as one step
Run(j) ==
    \/ Steps(j)
    \/ cancel_job_save(j)
    \/ \E call \in StatusCalls : _update_job_status_save(j, call)

Next == \E j \in Jobs : submit_job(j) \/ Run(j)

Spec == Init /\ [][Next]_vars

(***************************************************************************)
(* The orchestrator polled by a caller of get_job_status, for the jobs of  *)
(* PolledRequests.                                                         *)
(***************************************************************************)
PolledRequests == { AnalyzeRequest("zip", << "bandit" >>) }

submit_polled_job(j) == submit(j, PolledRequests)

NextPolled ==
    \E j \in Jobs :
        \/ submit_polled_job(j)
        \/ Run(j)
        \/ get_job_status_lock(j)
        \/ get_job_status_load(j)
        \/ get_job_status_return(j)

SpecPolled == Init /\ [][NextPolled]_vars

(***************************************************************************)
(* The orchestrator under fair scheduling: a thread that can take a step   *)
(* eventually takes one, and so does a cancel_job call that has passed its *)
(* check.  Nothing is assumed of the callers of submit_job and cancel_job, *)
(* of the sweep, or of the analyzers, whose runs may never return.         *)
(***************************************************************************)
ThreadStep(j) ==
    \/ execute_start(j)
    \/ \E call \in StatusCalls : _update_job_status_lock(j, call)
    \/ \E call \in StatusCalls : _update_job_status_kwargs(j, call)
    \/ \E call \in StatusCalls : _update_job_status_save(j, call)
    \/ \E call \in ProgressCalls : _update_job_progress_lock(j, call)
    \/ \E call \in ProgressCalls : _update_job_progress_emit(j, call)
    \/ _fetch_source(j)
    \/ _sanitize_workspace(j)
    \/ select_analyzers_step(j)
    \/ dispatch_analyzer(j)
    \/ collect_result(j)
    \/ _create_report(j)
    \/ _save_report(j)
    \/ \E call \in {"done", "fail"} : emit_finished(j, call)

CancelStep(j) == cancel_job_set(j) \/ cancel_job_save(j) \/ cancel_job_emit(j)

NextFair == \E j \in Jobs : submit_polled_job(j) \/ Run(j)

SpecFair ==
    /\ Init
    /\ [][NextFair]_vars
    /\ \A j \in Jobs : WF_vars(ThreadStep(j)) /\ WF_vars(CancelStep(j))

(***************************************************************************)
(* The orchestrator with the _save_job_state calls of cancel_job and of    *)
(* the execution thread taken in two steps each: the calls are made        *)
(* outside the lock, so that between the evaluation of to_dict() by one    *)
(* caller and its write the other caller may update the record and save.   *)
(***************************************************************************)
NextSaves ==
    \E j \in Jobs :
        \/ submit_polled_job(j)
        \/ Steps(j)
        \/ cancel_job_dump(j)
        \/ cancel_job_write(j)
        \/ \E call \in StatusCalls : _update_job_status_dump(j, call)
        \/ \E call \in StatusCalls : _update_job_status_write(j, call)

SpecSaves == Init /\ [][NextSaves]_vars

(***************************************************************************)
(* The ReportBuilder on its own: results of every shape are added to a new *)
(* builder, in every order, and the report is built.                       *)
(***************************************************************************)
MaxAdded == 2
MaxIssues == 2

Severities == {"critical", "high", "medium", "low"}
BuilderTools == {"bandit", "semgrep"}

\* the findings a tool may report: the tools agree on type, file and line,
\* so that two tools, or one tool twice, report the same finding
BuilderIssues(tool) ==
    { Issue(tool, "B105", "critical", "app.py", 3), Issue(tool, "B105", "high", "lib.py", 3),
      Issue(tool, "B105", "medium", "app.py", 3), Issue(tool, "B105", "low", "lib.py", 3) }

SeqsUpTo(S, n) == UNION { [1..m -> S] : m \in 0..n }

BuilderResults ==
    UNION { { AnalyzerResult(tool, success, issues) :
                success \in BOOLEAN, issues \in SeqsUpTo(BuilderIssues(tool), MaxIssues) } :
            tool \in BuilderTools }

add_analyzer_result(result) ==
    /\ rb_report = None
    /\ Len(rb_added) < MaxAdded
    /\ rb_added' = Append(rb_added, result)
    /\ UNCHANGED << rb_report, rb_args, job_vars, state_file_vars, callback_vars, selector_vars,
                    pool_vars, progress_vars,
                    normalize_vars, sweep_vars >>

\* the arguments build_report is called with
BuilderJobIds == {"job-1", "job-2"}
BuilderRepos == { RepoInfo(AnalyzeRequest("zip", << >>)), RepoInfo(AnalyzeRequest("github", << >>)) }
BuilderLabels == { << >>, << "nightly" >>, << "bandit" >> }

builder_build_report(job_id, repo_info, labels) ==
    /\ rb_report = None
    /\ rb_args' = Some([job_id |-> job_id, repo_info |-> repo_info, labels |-> labels])
    /\ rb_report' = Some(build_report(job_id, repo_info, labels, rb_added))
    /\ UNCHANGED << rb_added, job_vars, state_file_vars, callback_vars, selector_vars, pool_vars, progress_vars,
                    normalize_vars, sweep_vars >>

NextBuilder ==
    \/ \E result \in BuilderResults : add_analyzer_result(result)
    \/ \E job_id \in BuilderJobIds, repo_info \in BuilderRepos, labels \in BuilderLabels :
          builder_build_report(job_id, repo_info, labels)

SpecBuilder == Init /\ [][NextBuilder]_vars

(***************************************************************************)
(* The job-state file on its own: a JobInfo of every shape is saved by     *)
(* _save_job_state and read back by _load_job_state.                       *)
(***************************************************************************)
Percents == {0, 50, 100}
Stamps == {None, Some("2024-01-01T00:00:00")}
Errors == {None, Some(""), Some("fetch failed")}

JobInfos ==
    { [job_id |-> "job-1", status |-> status, progress |-> progress,
       submitted_at |-> Some("2024-01-01T00:00:00"), started_at |-> started_at,
       finished_at |-> finished_at, error |-> error] :
        status \in JobStatus,
        progress \in {None} \cup { Some(JobProgress(phase, percent)) :
                                      phase \in JobPhase, percent \in Percents },
        started_at \in Stamps, finished_at \in Stamps, error \in Errors }

InitStateFile ==
    /\ NoJobs
    /\ BuilderIdle
    /\ CallbacksIdle
    /\ SelectorIdle
    /\ PoolIdle
    /\ ProgressIdle
    /\ NormalizeIdle
    /\ SweepIdle
    /\ rt_info \in JobInfos
    /\ rt_file = NoFile
    /\ rt_loaded = None
    /\ rt_state = "new"

save_job_state ==
    /\ rt_state = "new"
    /\ rt_file' = to_dict(rt_info)
    /\ rt_state' = "saved"
    /\ UNCHANGED << rt_info, rt_loaded, job_vars, builder_vars, callback_vars,
                    selector_vars, pool_vars, progress_vars,
                    normalize_vars, sweep_vars >>

load_job_state ==
    /\ rt_state = "saved"
    /\ rt_loaded' = _load_job_state(rt_file)
    /\ rt_state' = "loaded"
    /\ UNCHANGED << rt_info, rt_file, job_vars, builder_vars, callback_vars,
                    selector_vars, pool_vars, progress_vars,
                    normalize_vars, sweep_vars >>

NextStateFile == save_job_state \/ load_job_state

SpecStateFile == InitStateFile /\ [][NextStateFile]_vars

(***************************************************************************)
(* _emit_event on its own: callbacks are registered by add_event_callback, *)
(* and the loop of _emit_event calls them one by one; a callback returns   *)
(* or raises.                                                              *)
(***************************************************************************)
MaxCallbacks == 3

Callbacks == {"sse", "webhook", "audit"}
EmittedEvents == { ProgressEvent(CLONE, 10), FinishedEvent(CANCELED) }

add_event_callback(callback) ==
    /\ cb_state = "idle"
    /\ Len(event_callbacks) < MaxCallbacks
    /\ event_callbacks' = Append(event_callbacks, callback)
    /\ UNCHANGED << cb_state, cb_event, cb_i, cb_calls, job_vars, builder_vars,
                    state_file_vars, selector_vars, pool_vars, progress_vars,
                    normalize_vars, sweep_vars >>

\* line 473 with the except clause of lines 476-477 removed
AfterCallback_uncaught(raised) == IF raised THEN "propagate" ELSE "continue"

\* lines 474-477: an exception of the callback is logged
AfterCallback(raised) == "continue"

emit_event_begin(event) ==
    /\ cb_state = "idle"
    /\ cb_state' = "loop"
    /\ cb_event' = Some(event)
    /\ cb_i' = 1
    /\ UNCHANGED << event_callbacks, cb_calls, job_vars, builder_vars, state_file_vars,
                    selector_vars, pool_vars, progress_vars,
                    normalize_vars, sweep_vars >>

emit_event_call ==
    /\ cb_state = "loop"
    /\ cb_i <= Len(event_callbacks)
    /\ \E raised \in BOOLEAN :
          /\ cb_calls' = Append(cb_calls, [callback |-> event_callbacks[cb_i],
                                           event |-> cb_event[1], raised |-> raised])
          /\ IF AfterCallback(raised) = "continue"
               THEN cb_i' = cb_i + 1 /\ UNCHANGED cb_state
               ELSE cb_state' = "raised" /\ UNCHANGED cb_i
    /\ UNCHANGED << event_callbacks, cb_event, job_vars, builder_vars, state_file_vars,
                    selector_vars, pool_vars, progress_vars,
                    normalize_vars, sweep_vars >>

emit_event_end ==
    /\ cb_state = "loop"
    /\ cb_i > Len(event_callbacks)
    /\ cb_state' = "returned"
    /\ UNCHANGED << event_callbacks, cb_event, cb_i, cb_calls, job_vars, builder_vars,
                    state_file_vars, selector_vars, pool_vars, progress_vars,
                    normalize_vars, sweep_vars >>

NextCallbacks ==
    \/ \E callback \in Callbacks : add_event_callback(callback)
    \/ \E event \in EmittedEvents : emit_event_begin(event)
    \/ emit_event_call
    \/ emit_event_end

SpecCallbacks == Init /\ [][NextCallbacks]_vars

(***************************************************************************)
(* _select_analyzers on its own: analyzer classes are registered, then the *)
(* selection is made for a request and a workspace.                        *)
(***************************************************************************)
SelWorkspaces == SUBSET {"app.py", "index.js", "requirements.txt"}

\* AnalyzerRegistry.register
register(name) ==
    /\ sel_args = None
    /\ name \notin sel_registry
    /\ sel_registry' = sel_registry \cup {name}
    /\ UNCHANGED << sel_args, sel_result, job_vars, builder_vars, state_file_vars,
                    callback_vars, pool_vars, progress_vars,
                    normalize_vars, sweep_vars >>

select_analyzers_call(req, files) ==
    /\ sel_args = None
    /\ sel_args' = Some([requested |-> req.analyzers, files |-> files])
    /\ sel_result' = Some(_select_analyzers(req.analyzers, sel_registry, files))
    /\ UNCHANGED << sel_registry, job_vars, builder_vars, state_file_vars, callback_vars,
                    pool_vars, progress_vars,
                    normalize_vars, sweep_vars >>

NextSelector ==
    \/ \E name \in Registered : register(name)
    \/ \E req \in Requests, files \in SelWorkspaces : select_analyzers_call(req, files)

SpecSelector == Init /\ [][NextSelector]_vars

(***************************************************************************)
(* The shared executor on its own: the _run_analyzers calls of several     *)
(* jobs submit their analyzers to self.executor, whose worker threads take *)
(* the tasks in the order of submission, and wait for the futures in turn. *)
(***************************************************************************)
max_workers == 4

\* an executor that starts a thread for every task
WorkerAvailable_unbounded == TRUE

\* ThreadPoolExecutor(max_workers=max_workers): a queued task is taken by an
\* idle worker thread, or by a new one while there are fewer than max_workers
WorkerAvailable == Cardinality(pool_running) < max_workers

PoolUnchanged == UNCHANGED << job_vars, builder_vars, state_file_vars, callback_vars,
                              selector_vars, progress_vars,
                              normalize_vars, sweep_vars >>

\* _run_analyzers is entered with the default analyzers, all registered
run_analyzers_call(j) ==
    /\ eng_pc[j] = "not called"
    /\ eng_pc' = [eng_pc EXCEPT ![j] = "dispatch"]
    /\ UNCHANGED << eng_i, eng_results, eng_report, work_queue, pool_running, pool_done >>
    /\ PoolUnchanged

\* line 349: self.executor.submit(analyzer.run_analysis, workspace_path)
executor_submit(j) ==
    /\ eng_pc[j] = "dispatch"
    /\ LET last == eng_i[j] + 1 = Len(defaults)
       IN  /\ work_queue' = Append(work_queue, << j, eng_i[j] + 1 >>)
           /\ eng_i' = [eng_i EXCEPT ![j] = IF last THEN 0 ELSE @ + 1]
           /\ eng_pc' = [eng_pc EXCEPT ![j] = IF last THEN "collect" ELSE "dispatch"]
    /\ UNCHANGED << eng_results, eng_report, pool_running, pool_done >>
    /\ PoolUnchanged

\* a worker thread of the executor takes the oldest queued task
worker_take ==
    /\ work_queue # << >>
    /\ WorkerAvailable
    /\ pool_running' = pool_running \cup { Head(work_queue) }
    /\ work_queue' = Tail(work_queue)
    /\ UNCHANGED << eng_pc, eng_i, eng_results, eng_report, pool_done >>
    /\ PoolUnchanged

\* run_analysis returns or raises in its worker thread
worker_return(task) ==
    /\ task \in pool_running
    /\ pool_running' = pool_running \ {task}
    /\ pool_done' = Append(pool_done, task)
    /\ UNCHANGED << eng_pc, eng_i, eng_results, eng_report, work_queue >>
    /\ PoolUnchanged

\* the task returned
Done(task) == \E n \in 1..Len(pool_done) : pool_done[n] = task

\* a collection loop that visits the futures last dispatched first
CollectionOrder_reversed == [k \in 1..Len(defaults) |-> Len(defaults) + 1 - k]

\* line 353, for analyzer_name, future in futures: the order of the list
CollectionOrder == [k \in 1..Len(defaults) |-> k]

\* the task is in the executor's queue, not yet taken by a worker thread
Queued(task) == \E n \in 1..Len(work_queue) : work_queue[n] = task

\* lines 353-360: future.result(timeout=600) returns the result of a task that
\* is done, which is appended, and raises TimeoutError for one that is not:
\* the loop goes on, and the task stays where it is, in the queue or with its
\* worker.  The wait of ten minutes does not end on a queued task while a
\* worker is free to take tasks from the queue.
future_result(j) ==
    /\ eng_pc[j] = "collect"
    /\ LET task == << j, CollectionOrder[eng_i[j] + 1] >>
           last == eng_i[j] + 1 = Len(defaults)
       IN  /\ Queued(task) => ~WorkerAvailable
           /\ eng_results' = [eng_results EXCEPT ![j] =
                                 IF Done(task) THEN Append(@, task[2]) ELSE @]
           /\ eng_i' = [eng_i EXCEPT ![j] = IF last THEN 0 ELSE @ + 1]
           /\ eng_pc' = [eng_pc EXCEPT ![j] = IF last THEN "returned" ELSE "collect"]
    /\ UNCHANGED << eng_report, work_queue, pool_running, pool_done >>
    /\ PoolUnchanged

\* the AnalyzerResult a task of the pool returned
TaskResult(k) == run_analysis(defaults[k], "ok")

\* _create_report of the list _run_analyzers returned
pool_create_report(j) ==
    /\ eng_pc[j] = "returned"
    /\ eng_report' = [eng_report EXCEPT ![j] =
           Some(build_report(j, RepoInfo(AnalyzeRequest("zip", << >>)), << >>,
                             [n \in 1..Len(eng_results[j]) |-> TaskResult(eng_results[j][n])]))]
    /\ eng_pc' = [eng_pc EXCEPT ![j] = "reported"]
    /\ UNCHANGED << eng_i, eng_results, work_queue, pool_running, pool_done >>
    /\ PoolUnchanged

NextPool ==
    \/ \E j \in PoolJobs : run_analyzers_call(j)
    \/ \E j \in PoolJobs : executor_submit(j)
    \/ worker_take
    \/ \E j \in PoolJobs, k \in 1..Len(defaults) : worker_return(<< j, k >>)
    \/ \E j \in PoolJobs : future_result(j)
    \/ \E j \in PoolJobs : pool_create_report(j)

SpecPool == Init /\ [][NextPool]_vars

(***************************************************************************)
(* The progress calls of _execute_job on their own: the thread of one job  *)
(* walks through its _update_job_progress calls, for a list of selected    *)
(* analyzers of every length up to MaxSelected (a request may name an      *)
(* analyzer more than once), until it returns or a step raises.            *)
(***************************************************************************)
MaxSelected == 5

SelectedLists == SeqsUpTo({"bandit", "semgrep"}, MaxSelected)

ProgressUnchanged == UNCHANGED << job_vars, builder_vars, state_file_vars, callback_vars,
                                  selector_vars, pool_vars,
                                  normalize_vars, sweep_vars >>

progress_start ==
    /\ prog_pc = "not started"
    /\ prog_pc' = "p10"
    /\ UNCHANGED << prog_loc, prog_events >>
    /\ ProgressUnchanged

\* the position after a progress call: the dispatch loop goes on to the
\* next analyzer and ends after the last one
ProgressThen(call) ==
    CASE call = "p10" -> "p20"
      [] call = "p20" -> "select"
      [] call = "an"  -> IF prog_loc.i + 1 = Len(prog_loc.analyzer_names) THEN "p85" ELSE "an"
      [] call = "p85" -> "p95"
      [] call = "p95" -> "returned"

\* _update_job_progress(job_id, phase, percent) and the event it emits
update_job_progress(call) ==
    /\ prog_pc = call
    /\ prog_events' = Append(prog_events,
                             ProgressEvent(PhaseOf(call, prog_loc), PercentOf(call, prog_loc)))
    /\ prog_loc' = IF call = "an" THEN [prog_loc EXCEPT !.i = @ + 1] ELSE prog_loc
    /\ prog_pc' = ProgressThen(call)
    /\ ProgressUnchanged

\* _select_analyzers returns the list; _run_analyzers returns at once for
\* an empty one
progress_select(names) ==
    /\ prog_pc = "select"
    /\ prog_loc' = [analyzer_names |-> names, i |-> 0]
    /\ prog_pc' = IF names = << >> THEN "p85" ELSE "an"
    /\ UNCHANGED prog_events
    /\ ProgressUnchanged

\* a step of the try block raises: no further progress call is made
progress_raise ==
    /\ prog_pc \in {"p10", "p20", "select", "an", "p85", "p95"}
    /\ prog_pc' = "raised"
    /\ UNCHANGED << prog_loc, prog_events >>
    /\ ProgressUnchanged

NextProgress ==
    \/ progress_start
    \/ \E call \in ProgressCalls : update_job_progress(call)
    \/ \E names \in SelectedLists : progress_select(names)
    \/ progress_raise

SpecProgress == Init /\ [][NextProgress]_vars

(***************************************************************************)
(* Observations used by the properties.                                    *)
(***************************************************************************)
Submitted(j) == job_objs[j] # NoJob

\* the finished event of cancel_job is its last statement before it returns
\* True: some call on j has returned True
CancelReturnedTrue(j) ==
    \E k \in 1..Len(events[j]) : events[j][k] = FinishedEvent(CANCELED)

FinishedIndexes(j) == { k \in 1..Len(events[j]) : events[j][k].type = "finished" }

LegalEdges == { << QUEUED, RUNNING >>, << RUNNING, COMPLETED >>, << RUNNING, FAILED >>,
                << QUEUED, CANCELED >>, << RUNNING, CANCELED >> }

(***************************************************************************)
(* C1: every change of a job's status follows one of the edges             *)
(* Queued->Running, Running->Completed, Running->Failed, Queued->Canceled, *)
(* Running->Canceled; no edge leaves Canceled, Completed or Failed.        *)
(***************************************************************************)
C1_LegalTransitions ==
    [][\A j \in Jobs :
          (Submitted(j) /\ job_objs'[j].status # job_objs[j].status)
             => << job_objs[j].status, job_objs'[j].status >> \in LegalEdges]_vars

(***************************************************************************)
(* C2: once a job's status is Completed, Failed or Canceled, no later step *)
(* of any thread changes any field of its JobInfo.                         *)
(***************************************************************************)
C2_TerminalIsFrozen ==
    [][\A j \in Jobs :
          (Submitted(j) /\ job_objs[j].status \in Terminal)
             => job_objs'[j] = job_objs[j]]_vars

(***************************************************************************)
(* C3: cancel returns true only if the job is in the table with status     *)
(* Queued or Running at the moment of the call, and then sets the status   *)
(* to Canceled and stamps finishedAt; for an unknown id or a job that is   *)
(* Completed, Failed or Canceled it returns false and leaves the in-memory *)
(* record and the persisted state unchanged and emits no event.            *)
(***************************************************************************)
C3_CancelContract ==
    [][\A j \in Jobs :
          LET cancelable == j \in active_jobs /\ job_objs[j].status \in {QUEUED, RUNNING}
          IN  \* a call passes the check of line 151 and will return True
              /\ (cpc[j] = "idle" /\ cpc'[j] = "set")
                    => /\ cancelable
                       /\ job_objs'[j].status = CANCELED
              /\ (cpc[j] = "set" /\ cpc'[j] = "save")
                    => /\ job_objs'[j].status = CANCELED
                       /\ job_objs'[j].finished_at # None
              /\ (cancel_ret'[j] = "true" /\ cancel_ret[j] # "true")
                    => /\ cpc[j] = "emit"
                       /\ canceled_from[j] \in {QUEUED, RUNNING}
              \* a call returns False
              /\ (cancel_ret'[j] = "false" /\ cancel_ret[j] # "false")
                    => /\ ~cancelable
                       /\ UNCHANGED << job_objs, active_jobs, job_files, events >>]_vars

\* a second call on a job that a first call has canceled returned False
C3_Witness ==
    \E j \in Jobs : /\ cancel_ret[j] = "false"
                    /\ canceled_from[j] = RUNNING
                    /\ job_objs[j].status = CANCELED
                    /\ job_objs[j].finished_at # None

(***************************************************************************)
(* C4: for a job on which cancel returned true, no report is built or      *)
(* persisted at any later point.                                           *)
(***************************************************************************)
C4_NoReportAfterCancel ==
    [][\A j \in Jobs :
          CancelReturnedTrue(j)
             => /\ report_files'[j] = report_files[j]
                /\ loc'[j].report = loc[j].report]_vars

(***************************************************************************)
(* C5: after cancel has returned true for a Running job the execution      *)
(* thread starts no new phase: at most the phase in flight when cancel     *)
(* returned still reports its progress, and no later progress event and    *)
(* no later analyzer dispatch occurs.                                      *)
(***************************************************************************)
ProgressAfterCancel(j) ==
    { k \in 1..Len(events[j]) :
        /\ events[j][k].type = "progress"
        /\ \E c \in 1..(k - 1) : events[j][c] = FinishedEvent(CANCELED) }

C5_NoPhaseAfterCancel ==
    \A j \in Jobs :
        canceled_from[j] = RUNNING => Cardinality(ProgressAfterCancel(j)) <= 1

(***************************************************************************)
(* C6: if cancel succeeds while the job is still Queued, then in every     *)
(* later state the status is Canceled, finishedAt is set and the source    *)
(* fetch is never invoked.                                                 *)
(***************************************************************************)
C6_QueuedCancelIsFinal ==
    \A j \in Jobs :
        (canceled_from[j] = QUEUED /\ CancelReturnedTrue(j))
           => /\ job_objs[j].status = CANCELED
              /\ job_objs[j].finished_at # None
              /\ ~fetch_invoked[j]

(***************************************************************************)
(* C7: no event of any type is emitted for a job after a finished event    *)
(* for it has been emitted.                                                *)
(***************************************************************************)
C7_FinishedIsLast ==
    \A j \in Jobs : \A k \in FinishedIndexes(j) : k = Len(events[j])

(***************************************************************************)
(* C8: at most one finished event is emitted over a job's lifetime.        *)
(***************************************************************************)
C8_SingleFinished ==
    \A j \in Jobs : Cardinality(FinishedIndexes(j)) <= 1

(***************************************************************************)
(* C9: if any step of the execution sequence raises, the job ends with     *)
(* status Failed, error equal to the exception's text, finishedAt set and  *)
(* a finished event with status failed emitted; the exception does not     *)
(* escape the job's thread.                                                *)
(***************************************************************************)
C9_FailureBoundary ==
    \A j \in Jobs :
        loc[j].exc # None
           => /\ pc[j] # "crashed"
              /\ pc[j] = "finished"
                    => /\ job_objs[j].status = FAILED
                       /\ job_objs[j].error = loc[j].exc
                       /\ job_objs[j].finished_at # None
                       /\ \E k \in 1..Len(events[j]) :
                             events[j][k] = FailedEvent(j, loc[j].exc[1])

(***************************************************************************)
(* C10: if the invocation of a selected analyzer raises or exceeds the     *)
(* engine timeout, no exception reaches the job's failure handler for it   *)
(* and the job still ends Completed; the sibling analyzers are collected,  *)
(* none is skipped, and every issue of every sibling result with           *)
(* success=true appears in the final report.                               *)
(***************************************************************************)
JobLevelErrors ==
    { "Either github_url or file must be provided", "fetch failed", "sanitize failed",
      "selection failed", "report build failed", "report write failed", UnboundLocal }

AfterCollection == { "p85_lock", "p85_emit", "create_report", "p95_lock", "p95_emit",
                     "save_report", "done_lock", "done_save", "done_emit" }

ReturnedResults(j) ==
    LET returned(f) == f.state = "returned"
        done == SelectSeq(futures[j], returned)
    IN  [k \in 1..Len(done) |-> done[k].result[1]]

ReportIssues(report) ==
    { i \in UNION { { f.issues[k] : k \in 1..Len(f.issues) } :
                       f \in { report.files[n] : n \in 1..Len(report.files) } } : TRUE }

C10_AnalyzerFailureTolerated ==
    \A j \in Jobs :
        /\ loc[j].exc # None => loc[j].exc[1] \in JobLevelErrors
        /\ pc[j] \in AfterCollection => loc[j].results = ReturnedResults(j)
        /\ (pc[j] = "finished" /\ loc[j].exc = None)
              => /\ job_objs[j].status = COMPLETED
                 /\ report_files[j] # NoFile
                 /\ \A k \in 1..Len(futures[j]) :
                       (futures[j][k].state = "returned" /\ futures[j][k].result[1].success)
                          => \A n \in 1..Len(futures[j][k].result[1].issues) :
                                futures[j][k].result[1].issues[n]
                                   \in ReportIssues(report_files[j])

\* a job ended Completed although one analyzer raised and one timed out or
\* raised, with the findings of the analyzer that returned in its report
C10_Witness ==
    \E j \in Jobs :
        /\ pc[j] = "finished" /\ job_objs[j].status = COMPLETED
        /\ Len(futures[j]) = 2
        /\ futures[j][1].state = "raised"
        /\ futures[j][2].state = "returned" /\ futures[j][2].result[1].success
        /\ report_files[j] # NoFile
        /\ report_files[j].meta.tools = << futures[j][2].name >>
        /\ ReportIssues(report_files[j]) # {}

(***************************************************************************)
(* C11: the final report's meta.tools holds exactly the names of the       *)
(* analyzers whose run succeeded: a tool whose analysis raised, errored or *)
(* timed out, in the engine or inside the tool's own run, is absent, and   *)
(* every tool that succeeded is present.                                   *)
(***************************************************************************)
SucceededTools(j) ==
    { futures[j][k].name : k \in { n \in 1..Len(futures[j]) :
          futures[j][n].state = "returned" /\ futures[j][n].run = "ok" } }

C11_ToolsAreTheSucceededRuns ==
    \A j \in Jobs :
        report_files[j] # NoFile
           => { report_files[j].meta.tools[k] : k \in 1..Len(report_files[j].meta.tools) }
                 = SucceededTools(j)

(***************************************************************************)
(* Observations of a built report.                                         *)
(***************************************************************************)
SummaryTotal(report) ==
    report.summary.critical + report.summary.high + report.summary.medium
       + report.summary.low

\* the positions << k, n >> of the issues of the results with success=true
AcceptedPositions(results) ==
    { << k, n >> \in (1..Len(results)) \X (1..MaxIssues + 1) :
         results[k].success /\ n <= Len(results[k].issues) }

FilePositions(report) ==
    { << k, n >> \in (1..Len(report.files)) \X (1..(MaxAdded + 1) * (MaxIssues + 1)) :
         n <= Len(report.files[k].issues) }

(***************************************************************************)
(* C12: the built report's summary.total() equals the sum of len(issues)   *)
(* over the added results with success=true, and each severity counter     *)
(* equals the number of those issues with that severity; a result with     *)
(* success=false adds nothing even when its issues list is non-empty.      *)
(***************************************************************************)
C12_SummaryCountsAccepted ==
    rb_report # None =>
        /\ SummaryTotal(rb_report[1]) = Cardinality(AcceptedPositions(rb_added))
        /\ \A severity \in Severities :
              rb_report[1].summary[severity]
                 = Cardinality({ p \in AcceptedPositions(rb_added) :
                                   rb_added[p[1]].issues[p[2]].severity = severity })

\* a report built from a failed result that carries findings and a
\* successful one: only the findings of the successful one are counted
C12_Witness ==
    /\ rb_report # None
    /\ Len(rb_added) = 2
    /\ ~rb_added[1].success /\ Len(rb_added[1].issues) = 2
    /\ rb_added[2].success /\ Len(rb_added[2].issues) = 1
    /\ SummaryTotal(rb_report[1]) = 1

(***************************************************************************)
(* C13: the files list of a built report has exactly one entry per         *)
(* distinct file path occurring among the accepted issues, and the entries *)
(* are in strictly ascending lexicographic order of path, whatever the     *)
(* order in which results and issues were added.                           *)
(***************************************************************************)
PathRank(path) == CHOOSE k \in 1..Len(PathOrder) : PathOrder[k] = path

C13_FilesSortedOnePerPath ==
    rb_report # None =>
        LET files == rb_report[1].files
        IN  /\ { files[k].path : k \in 1..Len(files) }
                  = { rb_added[p[1]].issues[p[2]].file : p \in AcceptedPositions(rb_added) }
            /\ \A k \in 1..(Len(files) - 1) :
                  PathRank(files[k].path) < PathRank(files[k + 1].path)

\* a finding in lib.py was added before a finding in app.py
C13_Witness ==
    /\ rb_report # None
    /\ Len(rb_added) = 2
    /\ rb_added[1].success /\ Len(rb_added[1].issues) = 1
    /\ rb_added[1].issues[1].file = "lib.py"
    /\ rb_added[2].success /\ Len(rb_added[2].issues) = 1
    /\ rb_added[2].issues[1].file = "app.py"
    /\ Len(rb_report[1].files) = 2
    /\ rb_report[1].files[1].path = "app.py"

(***************************************************************************)
(* C14: report building never deduplicates: every accepted issue appears   *)
(* exactly once in the files entry of its own path and in no other entry,  *)
(* two issues with the same file, line and type both appear and both are   *)
(* counted, and the sizes of the files entries add up to summary.total().  *)
(***************************************************************************)
C14_NoDeduplication ==
    rb_report # None =>
        LET files == rb_report[1].files
            accepted == AcceptedPositions(rb_added)
            issue(p) == rb_added[p[1]].issues[p[2]]
            values == { issue(p) : p \in accepted }
        IN  /\ \A k \in 1..Len(files) : \A n \in 1..Len(files[k].issues) :
                  files[k].issues[n].file = files[k].path
            /\ \A x \in values :
                  Cardinality({ p \in FilePositions(rb_report[1]) :
                                  files[p[1]].issues[p[2]] = x })
                     = Cardinality({ p \in accepted : issue(p) = x })
            /\ Cardinality(FilePositions(rb_report[1])) = SummaryTotal(rb_report[1])
            /\ Cardinality(FilePositions(rb_report[1])) = Cardinality(accepted)

\* two tools report the same finding, and one of them reports it twice
C14_Witness ==
    /\ rb_report # None
    /\ Len(rb_added) = 2
    /\ rb_added[1] = AnalyzerResult("bandit", TRUE,
                         << Issue("bandit", "B105", "high", "lib.py", 3),
                            Issue("bandit", "B105", "high", "lib.py", 3) >>)
    /\ rb_added[2] = AnalyzerResult("semgrep", TRUE,
                         << Issue("semgrep", "B105", "high", "lib.py", 3) >>)
    /\ Len(rb_report[1].files) = 1
    /\ Len(rb_report[1].files[1].issues) = 3
    /\ rb_report[1].summary.high = 3

(***************************************************************************)
(* C17: for every JobInfo value (any status, progress null or any phase    *)
(* and percent, any combination of null and non-null startedAt, finishedAt *)
(* and error), saving it to the job-state file and loading it back yields  *)
(* a JobInfo equal to the original in every field.                         *)
(***************************************************************************)
C17_StateFileRoundTrip ==
    rt_state = "loaded" => rt_loaded = Some(rt_info)

\* a record with a progress of 0 percent, an empty error text and null
\* stamps went through the file
C17_Witness ==
    /\ rt_state = "loaded"
    /\ rt_info.progress = Some(JobProgress(WRITE, 0))
    /\ rt_info.error = Some("")
    /\ rt_info.started_at = None
    /\ rt_info.status = EXPIRED
    /\ rt_loaded # None
    /\ rt_loaded[1].progress = rt_info.progress

StatusView(j) ==
    IF j \in active_jobs THEN Some(job_objs[j]) ELSE _load_job_state(job_files[j])

IsCleanup(j) == j \in active_jobs /\ j \notin active_jobs'

C16_TerminalStatusIsStable ==
    [][\A j \in Jobs :
          (/\ StatusView(j) # None
           /\ StatusView(j)[1].status \in Terminal
           /\ ~LockHeld /\ ~LockHeld'
           /\ ~IsCleanup(j))
             => StatusView(j)' = StatusView(j)]_vars

(***************************************************************************)
(* C18: at every moment between the return of submit and the completion of *)
(* the job's first phase, getStatus returns status Queued or Running with  *)
(* a non-null progress whose phase is the fetch phase; a null progress or  *)
(* null phase is never observable.                                         *)
(***************************************************************************)
BeforeFirstPhaseEnds ==
    { "start", "run_lock", "run_set", "run_save", "p10_lock", "p10_emit", "fetch" }

C18_ProgressNeverNull ==
    \A j \in Jobs :
        (j \in active_jobs /\ pc[j] \in BeforeFirstPhaseEnds /\ canceled_from[j] = "none")
           => /\ job_objs[j].status \in {QUEUED, RUNNING}
              /\ job_objs[j].progress # None
              /\ job_objs[j].progress[1].phase = CLONE

(***************************************************************************)
(* C19: a caller that holds the JobInfo returned by getStatus while a      *)
(* writer is mid-transition never reads a combination of field values that *)
(* the job did not hold between two writer critical sections, such as a    *)
(* terminal status with a null finishedAt or Running with a null startedAt.*)
(***************************************************************************)
C19_NoTornRead ==
    \A j \in Jobs :
        j \in active_jobs
           => /\ job_objs[j].status \in Terminal => job_objs[j].finished_at # None
              /\ job_objs[j].status = RUNNING => job_objs[j].started_at # None

(***************************************************************************)
(* C20: for every emitted event and every set of registered callbacks,     *)
(* each registered callback is invoked with that event even when any of    *)
(* the other callbacks raises, and a raising callback neither changes the  *)
(* job state nor keeps _emit_event from returning to the step that         *)
(* called it.                                                              *)
(***************************************************************************)
C20_CallbacksIsolated ==
    /\ cb_state # "raised"
    /\ NoJobs
    /\ cb_state = "returned"
          => /\ Len(cb_calls) = Len(event_callbacks)
             /\ \A k \in 1..Len(event_callbacks) :
                   /\ cb_calls[k].callback = event_callbacks[k]
                   /\ cb_calls[k].event = cb_event[1]

\* the first two of three callbacks raised and the third was still invoked
C20_Witness ==
    /\ cb_state = "returned"
    /\ Len(event_callbacks) = 3
    /\ cb_calls[1].raised /\ cb_calls[2].raised /\ ~cb_calls[3].raised
    /\ cb_calls[3].callback = event_callbacks[3]

(***************************************************************************)
(* C21: the expiry sweep removes a job only if, at the moment of removal,  *)
(* its status is Completed, Failed or Canceled and it is older than the    *)
(* retention window; a job whose status is Queued or Running, or whose     *)
(* execution thread is still running, is never removed by the sweep.       *)
(***************************************************************************)
ThreadEnded(j) == pc[j] \in {"finished", "crashed"}

C21_SweepRemovesOnlyEndedJobs ==
    [][\A j \in Jobs :
          (j \in active_jobs /\ j \notin active_jobs')
             => /\ job_objs[j].status \in Terminal
                /\ ThreadEnded(j)]_vars

(***************************************************************************)
(* C26: for every sequence of results added to the ReportBuilder (none, or *)
(* results without issues, included), the report build_report returns has  *)
(* as job_id, meta.repo and meta.labels exactly the job id, repository     *)
(* descriptor and labels passed to build_report, whatever was added.       *)
(***************************************************************************)
C26_ReportCarriesItsArguments ==
    rb_report # None =>
        /\ rb_args # None
        /\ rb_report[1].job_id = rb_args[1].job_id
        /\ rb_report[1].meta.repo = rb_args[1].repo_info
        /\ rb_report[1].meta.labels = rb_args[1].labels

\* a report built after a successful result with issues was added, for
\* labels that are not the names of the tools that ran
C26_Witness ==
    /\ rb_report # None
    /\ rb_args # None
    /\ rb_args[1].job_id = "job-2"
    /\ rb_args[1].labels = << "nightly" >>
    /\ rb_report[1].meta.tools = << "bandit" >>
    /\ rb_report[1].files # << >>

(***************************************************************************)
(* C22: analyzer selection returns exactly those names of the requested    *)
(* list (the default set when the request names none) that are both in the *)
(* allowed set and applicable to the workspace; a requested name outside   *)
(* the allowed set is dropped, for every allowed set, the empty one        *)
(* included.                                                               *)
(***************************************************************************)
Elements(seq) == { seq[k] : k \in 1..Len(seq) }

C22_SelectionIsIntersection ==
    sel_result # None =>
        LET requested == IF sel_args[1].requested = << >>
                           THEN defaults ELSE sel_args[1].requested
        IN  Elements(sel_result[1]) =
               { a \in Elements(requested) :
                    a \in sel_registry /\ _is_analyzer_applicable(a, sel_args[1].files) }

(***************************************************************************)
(* C23: at every moment the number of analyzer invocations executing       *)
(* concurrently, summed over all jobs of the process, is at most the       *)
(* maximum concurrency of the single shared worker pool (default 4).       *)
(***************************************************************************)
C23_BoundedConcurrency == Cardinality(pool_running) <= max_workers

\* the pool is full with analyzers of both jobs while further ones wait
C23_Witness ==
    /\ Cardinality(pool_running) = max_workers
    /\ work_queue # << >>
    /\ \A j \in PoolJobs : \E k \in 1..Len(defaults) : << j, k >> \in pool_running

(***************************************************************************)
(* C24: for every number n >= 0 of selected analyzers, the percent values  *)
(* of a job's successive progress events are non-decreasing and lie in     *)
(* 0..100; the event emitted when the i-th of n analyzers (0 <= i < n) is  *)
(* dispatched carries 30 + floor(50*i/n), which is at least the preceding  *)
(* sanitize value 20 and below the following merge value 85.               *)
(***************************************************************************)
C24_ProgressIsMonotone ==
    LET n == Len(prog_loc.analyzer_names)
        percent(k) == prog_events[k].percent
    IN  /\ \A k \in 1..Len(prog_events) : percent(k) \in 0..100
        /\ \A k \in 1..Len(prog_events), m \in 1..Len(prog_events) :
              k < m => percent(k) <= percent(m)
        /\ \A k \in 1..Len(prog_events) :
              /\ k = 2 => percent(k) = 20
              /\ (k > 2 /\ k <= 2 + n) =>
                    /\ percent(k) = 30 + ((50 * (k - 3)) \div n)
                    /\ percent(k) >= 20
                    /\ percent(k) < 85
              /\ k = n + 3 => percent(k) = 85

\* a thread that went through all its progress calls with three analyzers,
\* where the quotient is rounded down (46 and 63)
C24_Witness ==
    /\ prog_pc = "returned"
    /\ Len(prog_loc.analyzer_names) = 3
    /\ Len(prog_events) = 7
    /\ prog_events[4].percent = 46
    /\ prog_events[5].percent = 63

(***************************************************************************)
(* C27: for a job that ends Completed the report is persisted before the   *)
(* status becomes Completed, and the finished event with status completed  *)
(* is emitted only after the status is Completed; hence a job with status  *)
(* Completed has a persisted report, and a consumer reacting to            *)
(* finished(completed) finds the report the event summarizes.              *)
(***************************************************************************)
EmitsCompleted(j) ==
    /\ Len(events'[j]) = Len(events[j]) + 1
    /\ events'[j][Len(events'[j])].type = "finished"
    /\ events'[j][Len(events'[j])].status = COMPLETED

IsCompleted(info) == info # NoJob /\ info.status = COMPLETED

C27_ReportBeforeCompleted ==
    [][\A j \in Jobs :
          /\ (IsCompleted(job_objs'[j]) /\ ~IsCompleted(job_objs[j]))
                => report_files[j] # NoFile
          /\ IsCompleted(job_objs'[j]) => report_files'[j] # NoFile
          /\ EmitsCompleted(j)
                => /\ IsCompleted(job_objs[j])
                   /\ report_files'[j] # NoFile
                   /\ report_files'[j].summary = events'[j][Len(events'[j])].summary]_vars

\* the thread has ended after emitting finished(completed) for a report
\* with findings
C27_Witness ==
    \E j \in Jobs :
        /\ pc[j] = "finished"
        /\ job_objs[j].status = COMPLETED
        /\ events[j] # << >>
        /\ events[j][Len(events[j])].type = "finished"
        /\ events[j][Len(events[j])].status = COMPLETED
        /\ report_files[j] # NoFile
        /\ report_files[j].files # << >>

(***************************************************************************)
(* C28: in every reachable state in which no writer is inside its section  *)
(* of the job-table lock, and for every job, finished_at is non-null       *)
(* exactly when the status is Completed, Failed or Canceled, and           *)
(* started_at is null as long as the job has never been Running (its       *)
(* thread has not yet made its first status update).                       *)
(***************************************************************************)
C28_TimestampsFollowStatus ==
    ~LockHeld =>
        \A j \in Jobs :
            Submitted(j) =>
                /\ job_objs[j].finished_at # None <=> job_objs[j].status \in Terminal
                /\ pc[j] \in {"start", "run_lock"} => job_objs[j].started_at = None

(***************************************************************************)
(* C29: in every reachable state and for every job, the error field is     *)
(* non-null only if the job's status is Failed.                            *)
(***************************************************************************)
C29_ErrorOnlyWhenFailed ==
    \A j \in Jobs :
        (Submitted(j) /\ job_objs[j].error # None) => job_objs[j].status = FAILED

\* a job that was canceled while Running and whose thread then failed: the
\* error is recorded, and a later cancel call has been refused
C29_Witness ==
    \E j \in Jobs :
        /\ Submitted(j)
        /\ job_objs[j].error # None
        /\ canceled_from[j] = RUNNING
        /\ pc[j] = "finished"
        /\ cancel_ret[j] = "false"

(***************************************************************************)
(* C30: in every quiescent state of a job (its execution thread has ended  *)
(* and no cancel call on it is in progress), the job-state file holds the  *)
(* same status, started_at, finished_at and error as the in-memory         *)
(* JobInfo, for every interleaving of the saves of cancel_job and of the   *)
(* execution thread.                                                       *)
(***************************************************************************)
Quiescent(j) == ThreadEnded(j) /\ cpc[j] = "idle"

C30_FileMatchesMemory ==
    \A j \in Jobs :
        (j \in active_jobs /\ Quiescent(j)) =>
            /\ job_files[j] # NoFile
            /\ job_files[j].status = job_objs[j].status
            /\ job_files[j].started_at = job_objs[j].started_at
            /\ job_files[j].finished_at = job_objs[j].finished_at
            /\ job_files[j].error = job_objs[j].error

(***************************************************************************)
(* C25: under fair scheduling, with source fetch and sanitize returning or *)
(* raising and every wait on an analyzer ending by return, exception or    *)
(* the engine timeout, every submitted job eventually reaches status       *)
(* Completed, Failed or Canceled and a finished event is emitted for it,   *)
(* also when some analyzer invocations never return.                       *)
(***************************************************************************)
FinishedEmitted(j) == \E k \in 1..Len(events[j]) : events[j][k].type = "finished"

\* submit_job has just returned: the job is Queued and its thread is to start
JustSubmitted(j) == pc[j] = "start" /\ canceled_from[j] = "none"

C31_OneResultPerDispatch ==
    \A j \in Jobs :
        pc[j] \in AfterCollection =>
            /\ Len(loc[j].results) = Len(futures[j])
            /\ \A k \in 1..Len(loc[j].results) :
                  loc[j].results[k].tool_name = futures[j][k].name

(***************************************************************************)
(* The adapters' normalization of a finding on its own: the severity and   *)
(* the file path of one finding of a tool's output are converted, and the  *)
(* resulting issue is added to a ReportBuilder.  A string is the sequence  *)
(* of its characters, so that lower(), upper() and strip() are computed.   *)
(***************************************************************************)
UpperLetters == << "A", "B", "C", "D", "E", "F", "G", "H", "I", "J", "K", "L", "M",
                  "N", "O", "P", "Q", "R", "S", "T", "U", "V", "W", "X", "Y", "Z" >>
LowerLetters == << "a", "b", "c", "d", "e", "f", "g", "h", "i", "j", "k", "l", "m",
                  "n", "o", "p", "q", "r", "s", "t", "u", "v", "w", "x", "y", "z" >>
Whitespace == {" ", "\t", "\n"}

LetterIndex(letters, c) == CHOOSE k \in 1..Len(letters) : letters[k] = c
lower(str) ==
    [k \in 1..Len(str) |->
        IF \E n \in 1..Len(UpperLetters) : UpperLetters[n] = str[k]
          THEN LowerLetters[LetterIndex(UpperLetters, str[k])] ELSE str[k]]
upper(str) ==
    [k \in 1..Len(str) |->
        IF \E n \in 1..Len(LowerLetters) : LowerLetters[n] = str[k]
          THEN UpperLetters[LetterIndex(LowerLetters, str[k])] ELSE str[k]]
strip(str) ==
    LET kept == { k \in 1..Len(str) : str[k] \notin Whitespace }
        first == CHOOSE k \in kept : \A m \in kept : k <= m
        last == CHOOSE k \in kept : \A m \in kept : m <= k
    IN  IF kept = {} THEN << >> ELSE SubSeq(str, first, last)

\* base.py, severity_map of _parse_severity: the keys and what they map to
severity_map ==
    << << << "c", "r", "i", "t", "i", "c", "a", "l" >>, "critical" >>,
       << << "h", "i", "g", "h" >>, "high" >>,
       << << "m", "e", "d", "i", "u", "m" >>, "medium" >>,
       << << "l", "o", "w" >>, "low" >>,
       << << "i", "n", "f", "o" >>, "low" >>,
       << << "w", "a", "r", "n", "i", "n", "g" >>, "medium" >>,
       << << "e", "r", "r", "o", "r" >>, "high" >>,
       << << "1" >>, "low" >>,
       << << "2" >>, "medium" >>,
       << << "3" >>, "high" >>,
       << << "4" >>, "critical" >> >>

MapGet(map, key, default) ==
    IF \E k \in 1..Len(map) : map[k][1] = key
      THEN map[CHOOSE k \in 1..Len(map) : map[k][1] = key][2]
      ELSE default

\* _parse_severity with low as the default of the lookup
_parse_severity_default_low(raw_severity) ==
    MapGet(severity_map, strip(lower(raw_severity)), "low")

_parse_severity(raw_severity) ==
    MapGet(severity_map, strip(lower(raw_severity)), "medium")

\* bandit_runner.py, severity_map and critical_tests of _determine_bandit_severity
bandit_severity_map ==
    << << << "L", "O", "W" >>, "low" >>,
       << << "M", "E", "D", "I", "U", "M" >>, "medium" >>,
       << << "H", "I", "G", "H" >>, "high" >> >>

critical_tests ==
    { << "B", "1", "0", "2" >>,
      << "B", "1", "0", "3" >>,
      << "B", "1", "0", "4" >>,
      << "B", "1", "0", "5" >>,
      << "B", "1", "0", "6" >>,
      << "B", "1", "0", "7" >>,
      << "B", "1", "0", "8" >>,
      << "B", "2", "0", "1" >>,
      << "B", "5", "0", "1" >>,
      << "B", "5", "0", "2" >>,
      << "B", "5", "0", "3" >>,
      << "B", "5", "0", "4" >>,
      << "B", "5", "0", "5" >>,
      << "B", "5", "0", "6" >>,
      << "B", "6", "0", "1" >>,
      << "B", "6", "0", "2" >>,
      << "B", "6", "0", "3" >>,
      << "B", "6", "0", "4" >>,
      << "B", "6", "0", "5" >>,
      << "B", "6", "0", "6" >>,
      << "B", "6", "0", "7" >>,
      << "B", "6", "0", "8" >>,
      << "B", "6", "0", "9" >>,
      << "B", "7", "0", "1" >>,
      << "B", "7", "0", "2" >>,
      << "B", "7", "0", "3" >> }

\* _determine_bandit_severity upgrading a medium finding as well
_determine_bandit_severity_upgrading_medium(finding) ==
    LET severity == MapGet(bandit_severity_map, upper(finding.issue_severity), "medium")
    IN  IF upper(finding.test_id) \in critical_tests /\ severity \in {"high", "medium"}
          THEN "critical" ELSE severity

_determine_bandit_severity(finding) ==
    LET severity == MapGet(bandit_severity_map, upper(finding.issue_severity), "medium")
    IN  IF upper(finding.test_id) \in critical_tests /\ severity = "high"
          THEN "critical" ELSE severity

\* os.path: a path is its root ("" when the path is relative, "/" on POSIX,
\* a drive on Windows) and its components.
Path(root, parts) == [root |-> root, parts |-> parts]
isabs(path) == path.root # ""

\* os.path.relpath raises ValueError when path and start are on different drives
relpath_raises(path, start) == path.root # start.root

relpath(path, start) ==
    LET shorter == IF Len(path.parts) < Len(start.parts)
                     THEN Len(path.parts) ELSE Len(start.parts)
        common == CHOOSE n \in 0..shorter :
                      /\ \A k \in 1..n : path.parts[k] = start.parts[k]
                      /\ n = shorter \/ path.parts[n + 1] # start.parts[n + 1]
        rel_list == [k \in 1..(Len(start.parts) - common) |-> ".."]
                        \o SubSeq(path.parts, common + 1, Len(path.parts))
    IN  Path("", IF rel_list = << >> THEN << "." >> ELSE rel_list)

_normalize_file_path(file_path, workspace_path) ==
    IF isabs(file_path)
      THEN IF relpath_raises(file_path, workspace_path)
             THEN file_path
             ELSE relpath(file_path, workspace_path)
      ELSE file_path

\* The raw severities of the model: the keys of the tables and words that are
\* in no table, in three spellings and with white space around them.
SeverityWords ==
    { << "c", "r", "i", "t", "i", "c", "a", "l" >>, << "h", "i", "g", "h" >>,
      << "m", "e", "d", "i", "u", "m" >>, << "l", "o", "w" >>,
      << "i", "n", "f", "o" >>, << "w", "a", "r", "n", "i", "n", "g" >>,
      << "e", "r", "r", "o", "r" >>, << "1" >>, << "2" >>, << "3" >>,
      << "4" >>, << "m", "o", "d", "e", "r", "a", "t", "e" >>,
      << "u", "n", "k", "n", "o", "w", "n" >>, << >>, << "5" >>,
      << "s", "e", "v", "e", "r", "e" >>, << "h", "i", " ", "g", "h" >>,
      << "n", "o", "t", "e" >> }
Capitalize(str) ==
    IF str = << >> THEN str ELSE upper(SubSeq(str, 1, 1)) \o SubSeq(str, 2, Len(str))
Spellings(str) == { str, upper(str), Capitalize(str) }
Paddings == { << << >>, << >> >>, << << " " >>, << >> >>,
              << << >>, << "\n" >> >>, << << "\t" >>, << " " >> >> }
RawSeverities ==
    { pad[1] \o spelled \o pad[2] :
        pad \in Paddings, spelled \in UNION { Spellings(word) : word \in SeverityWords } }

TestIds == { << "B", "1", "0", "5" >>, << "b", "6", "0", "2" >>,
            << "B", "1", "0", "1" >>, << "B", "9", "9", "9" >> }
SemgrepCheckId == << "r", "u", "l", "e" >>

Platforms == {"posix", "nt"}
WorkspaceOn(platform) ==
    IF platform = "posix" THEN Path("/", << "tmp", "ws" >>) ELSE Path("C:", << "ws" >>)
ReportedPathsOn(platform) ==
    { Path("", << "app.py" >>), Path("", << "src", "app.py" >>) } \cup
    ( IF platform = "posix"
        THEN { Path("/", << "tmp", "ws", "app.py" >>), Path("/", << "tmp", "ws" >>),
               Path("/", << "etc", "passwd" >>) }
        ELSE { Path("C:", << "ws", "app.py" >>), Path("C:", << "Users", "x.py" >>),
               Path("D:", << "lib", "x.py" >>) } )

Findings ==
    UNION { { [tool |-> tool, issue_severity |-> raw, test_id |-> test_id,
               filename |-> path, workspace_path |-> WorkspaceOn(platform)] :
                tool \in {"bandit", "semgrep"}, raw \in RawSeverities,
                test_id \in TestIds, path \in ReportedPathsOn(platform) } :
            platform \in Platforms }

NormalizeUnchanged ==
    UNCHANGED << job_vars, builder_vars, state_file_vars, callback_vars,
                 selector_vars, pool_vars, progress_vars, sweep_vars >>

\* the tool's output holds the finding
tool_reports ==
    /\ nz_finding = None
    /\ \E finding \in Findings : nz_finding' = Some(finding)
    /\ UNCHANGED << nz_issue, nz_reported >>
    /\ NormalizeUnchanged

\* BanditAnalyzer._convert_bandit_finding; the list holds the Issue it returns
_convert_bandit_finding ==
    /\ nz_finding # None /\ nz_issue = None
    /\ nz_finding[1].tool = "bandit"
    /\ LET finding == nz_finding[1]
           normalized_path == _normalize_file_path(finding.filename, finding.workspace_path)
           severity == _determine_bandit_severity(finding)
       IN  nz_issue' = Some(<< Issue("bandit", finding.test_id, severity, normalized_path, 1) >>)
    /\ UNCHANGED << nz_finding, nz_reported >>
    /\ NormalizeUnchanged

\* SemgrepAnalyzer._convert_semgrep_finding of a finding with extra.severity
_convert_semgrep_finding ==
    /\ nz_finding # None /\ nz_issue = None
    /\ nz_finding[1].tool = "semgrep"
    /\ LET finding == nz_finding[1]
           normalized_path == _normalize_file_path(finding.filename, finding.workspace_path)
           severity == _parse_severity(finding.issue_severity)
       IN  nz_issue' = Some(<< Issue("semgrep", SemgrepCheckId, severity, normalized_path, 1) >>)
    /\ UNCHANGED << nz_finding, nz_reported >>
    /\ NormalizeUnchanged

\* the adapter's result goes through ReportBuilder.add_analyzer_result
report_converted ==
    /\ nz_issue # None /\ nz_reported = None
    /\ nz_reported' =
           Some(builder_issues(<< AnalyzerResult(nz_finding[1].tool, TRUE, nz_issue[1]) >>))
    /\ UNCHANGED << nz_finding, nz_issue >>
    /\ NormalizeUnchanged

NextNormalize ==
    \/ tool_reports
    \/ _convert_bandit_finding
    \/ _convert_semgrep_finding
    \/ report_converted

SpecNormalize == Init /\ [][NextNormalize]_vars

\* A raw severity that is in neither form in the tool's table
TableKeys(tool) ==
    IF tool = "bandit"
      THEN { lower(bandit_severity_map[k][1]) : k \in 1..Len(bandit_severity_map) }
      ELSE { severity_map[k][1] : k \in 1..Len(severity_map) }
Unmapped(finding) == strip(lower(finding.issue_severity)) \notin TableKeys(finding.tool)
Converted == nz_issue # None
Reported == nz_reported # None

\* C33: a raw severity that is not in the tool's table once folded and trimmed
\* becomes medium: the conversion returns an issue (it neither raises nor drops
\* the finding), its severity is medium, and so it is in the report.
C33_UnmappedIsMedium ==
    /\ Converted /\ Unmapped(nz_finding[1]) =>
          /\ Len(nz_issue[1]) = 1
          /\ nz_issue[1][1].severity = "medium"
    /\ Reported /\ Unmapped(nz_finding[1]) =>
          /\ Len(nz_reported[1]) = 1
          /\ nz_reported[1][1].severity = "medium"

C33_Witness ==
    /\ Reported
    /\ nz_finding[1].tool = "semgrep"
    /\ nz_finding[1].issue_severity = << "\t", "M", "O", "D", "E", "R", "A", "T", "E", " " >>
    /\ nz_reported[1][1].severity = "medium"

SeverityRank(severity) ==
    CASE severity = "low" -> 1 [] severity = "medium" -> 2
      [] severity = "high" -> 3 [] severity = "critical" -> 4
BanditMapped(finding) == MapGet(bandit_severity_map, upper(finding.issue_severity), "medium")
Curated(finding) == upper(finding.test_id) \in critical_tests

\* C34: bandit's upgrade returns critical exactly when the mapped severity is
\* high and the test id is curated, and the mapped severity otherwise: never
\* less than the mapped severity, and low and medium stay what they are.
C34_UpgradeOnlyHighCurated ==
    Converted /\ nz_finding[1].tool = "bandit" =>
        LET finding == nz_finding[1]
            mapped == BanditMapped(finding)
            returned == nz_issue[1][1].severity
        IN  /\ Len(nz_issue[1]) = 1
            /\ returned = "critical" <=> (mapped = "high" /\ Curated(finding))
            /\ ~(mapped = "high" /\ Curated(finding)) => returned = mapped
            /\ SeverityRank(returned) >= SeverityRank(mapped)
            /\ mapped \in {"low", "medium"} => returned = mapped

C34_Witness ==
    /\ Converted
    /\ nz_finding[1].tool = "bandit"
    /\ nz_finding[1].issue_severity = << "H", "i", "g", "h" >>
    /\ nz_finding[1].test_id = << "b", "6", "0", "2" >>
    /\ nz_issue[1][1].severity = "critical"

\* C35: the file of an issue in the report is never an absolute path, whatever
\* path the tool reported.
C35_ReportedFileIsRelative ==
    Reported => \A k \in 1..Len(nz_reported[1]) : ~isabs(nz_reported[1][k].file)

(***************************************************************************)
(* The cleanup worker on its own: the loop of cleanup_worker, the scan of  *)
(* _cleanup_expired_jobs and its calls of cleanup_job, any of which can    *)
(* fail on the file system.  Jobs are submitted and grow old around it.    *)
(***************************************************************************)
SweepOrder == << "job-1", "job-2", "job-3" >>

SweepUnitUnchanged ==
    UNCHANGED << job_vars, builder_vars, state_file_vars, callback_vars,
                 selector_vars, pool_vars, progress_vars, normalize_vars >>

\* submit_job puts the job into active_jobs
sweep_job_submitted(j) ==
    /\ sw_table[j] = "absent"
    /\ \A k \in 1..Len(SweepOrder) :
          SweepOrder[k] = j => \A m \in 1..(k - 1) : sw_table[SweepOrder[m]] # "absent"
    /\ sw_table' = [sw_table EXCEPT ![j] = "live"]
    /\ UNCHANGED << sw_pc, sw_expired, sw_caught >>
    /\ SweepUnitUnchanged

\* the job has ended and seven days have passed since its submission
sweep_job_expires(j) ==
    /\ sw_table[j] = "live"
    /\ sw_table' = [sw_table EXCEPT ![j] = "expired"]
    /\ UNCHANGED << sw_pc, sw_expired, sw_caught >>
    /\ SweepUnitUnchanged

\* _cleanup_expired_jobs, lines 496-503: the scan under the lock
sweep_scan ==
    /\ sw_pc = "scan"
    /\ LET old(j) == sw_table[j] = "expired"
           found == SelectSeq(SweepOrder, old)
       IN  /\ sw_expired' = found
           /\ sw_pc' = IF found = << >> THEN "sleep" ELSE "clean"
    /\ sw_caught' = "none"
    /\ UNCHANGED sw_table
    /\ SweepUnitUnchanged

\* where the worker is after its call of cleanup_job for the head of the list
AfterCleanup(remaining) == IF remaining = << >> THEN "sleep" ELSE "clean"

\* cleanup_job letting its exception out, to the except clause of cleanup_worker
cleanup_job_except_propagates(remaining) ==
    [pc |-> "retry_sleep", expired |-> << >>, caught |-> "worker"]

\* cleanup_job, lines 209-210: the exception is logged and the call returns
cleanup_job_except(remaining) ==
    [pc |-> AfterCleanup(remaining), expired |-> remaining, caught |-> "cleanup_job"]

\* cleanup_job(job_id) for the next job of the list, removing it
sweep_cleanup_job ==
    /\ sw_pc = "clean"
    /\ sw_table' = [sw_table EXCEPT ![Head(sw_expired)] = "absent"]
    /\ sw_expired' = Tail(sw_expired)
    /\ sw_pc' = AfterCleanup(Tail(sw_expired))
    /\ sw_caught' = "none"
    /\ SweepUnitUnchanged

\* cleanup_job(job_id) when removing the workspace or the state file raises
sweep_cleanup_job_raises ==
    /\ sw_pc = "clean"
    /\ LET after == cleanup_job_except(Tail(sw_expired))
       IN  /\ sw_pc' = after.pc
           /\ sw_expired' = after.expired
           /\ sw_caught' = after.caught
    /\ UNCHANGED sw_table
    /\ SweepUnitUnchanged

\* cleanup_worker: time.sleep(3600) after a pass, time.sleep(60) after an error
cleanup_worker_sleep ==
    /\ sw_pc \in {"sleep", "retry_sleep"}
    /\ sw_pc' = "scan"
    /\ UNCHANGED << sw_table, sw_expired, sw_caught >>
    /\ SweepUnitUnchanged

WorkerStep ==
    sweep_scan \/ sweep_cleanup_job \/ sweep_cleanup_job_raises \/ cleanup_worker_sleep

NextSweep ==
    \/ \E j \in SweepJobs : sweep_job_submitted(j)
    \/ \E j \in SweepJobs : sweep_job_expires(j)
    \/ sweep_scan
    \/ sweep_cleanup_job
    \/ sweep_cleanup_job_raises
    \/ cleanup_worker_sleep

\* The worker is a thread of its own: it is scheduled, and its sleeps end.
SpecSweep == Init /\ [][NextSweep]_vars /\ WF_vars(WorkerStep)

WorkerMoved == sw_pc' # sw_pc \/ sw_expired' # sw_expired
SweepRaised == sw_caught # "none"

\* C32: when cleanup_job raises for one expired job, the worker goes on with the
\* rest of the list of that pass (to its sleep when nothing is left), and after
\* every error the loop comes back to the scan of another pass.
C32_SweepSurvivesErrors ==
    /\ [][ sw_pc = "clean" /\ WorkerMoved /\ sw_caught' # "none" =>
              /\ sw_expired' = Tail(sw_expired)
              /\ sw_pc' = IF sw_expired' = << >> THEN "sleep" ELSE "clean" ]_vars
    /\ SweepRaised ~> sw_pc = "scan"

C32_Witness ==
    /\ sw_caught = "cleanup_job"
    /\ sw_pc = "clean"
    /\ Len(sw_expired) = 2

(***************************************************************************)
(* The orchestrator under a request whose analyzers CSV names one analyzer *)
(* twice.                                                                  *)
(***************************************************************************)
RepeatedRequests == { AnalyzeRequest("zip", << "bandit", "bandit" >>) }

submit_repeated_job(j) == submit(j, RepeatedRequests)

NextRepeated ==
    \E j \in Jobs :
        \/ submit_repeated_job(j)
        \/ Run(j)

SpecRepeated == Init /\ [][NextRepeated]_vars

NoRepeat(seq) == \A k, m \in 1..Len(seq) : seq[k] = seq[m] => k = m

\* C38: within one job no analyzer name is dispatched twice, the report's
\* meta.tools holds no name twice, and the report counts no more issues than
\* one run of each of its tools found.
C38_EachAnalyzerOnce ==
    \A j \in Jobs :
        /\ NoRepeat([k \in 1..Len(futures[j]) |-> futures[j][k].name])
        /\ report_files[j] # NoFile =>
              /\ NoRepeat(report_files[j].meta.tools)
              /\ \A severity \in Severities :
                    report_files[j].summary[severity] <=
                        SeverityCount(IssuesOf("bandit"), severity)

\* the job's record has been removed from the table by cleanup_job
RecordRemoved(j) == pc[j] # "unborn" /\ j \notin active_jobs

\* C39: once cleanup_job has removed a job's record, a status update of its
\* execution thread does nothing: it does not raise, so the thread neither
\* enters its except clause with that error nor ends by an uncaught exception.
C39_UpdateAfterCleanupIsNoOp ==
    \A j \in Jobs :
        RecordRemoved(j) =>
            /\ loc[j].exc # Some(UnboundLocal)
            /\ pc[j] # "crashed"

LastFinished(j) ==
    events[j][CHOOSE k \in FinishedIndexes(j) : \A m \in FinishedIndexes(j) : m <= k]

\* C36: when the execution thread has ended and no cancel call is under way,
\* the last finished event emitted for the job carries the status the job has
\* in memory.
C36_LastFinishedIsFinalStatus ==
    \A j \in Jobs :
        Quiescent(j) /\ j \in active_jobs /\ FinishedIndexes(j) # {} =>
            LastFinished(j).status = job_objs[j].status

\* the collection loop of job j passes a task without appending a result
Omits(j, k) ==
    /\ eng_pc[j] = "collect" /\ eng_i[j] + 1 = k
    /\ eng_pc'[j] # eng_pc[j] \/ eng_i'[j] # eng_i[j]
    /\ eng_results'[j] = eng_results[j]

\* C37: a result is omitted from a job's list only for a task that a worker
\* had started and that did not return in time; a task is never passed over
\* while it still waits in the queue because the workers are held by tasks
\* that do not return.
C37_OmittedOnlyWhenStarted ==
    [][ \A j \in PoolJobs, k \in 1..Len(defaults) :
            Omits(j, k) => << j, k >> \in pool_running ]_vars

\* the positions of the list in the order of dispatch
InDispatchOrder(positions) ==
    LET held(k) == \E n \in 1..Len(positions) : positions[n] = k
    IN  SelectSeq([k \in 1..Len(defaults) |-> k], held)
CompletedAt(task) == CHOOSE n \in 1..Len(pool_done) : pool_done[n] = task

\* C40: the report built of a job's results is the report of the same results
\* taken in the order of dispatch, in whatever order the runs completed.
C40_ReportIndependentOfCompletion ==
    \A j \in PoolJobs :
        eng_report[j] # None =>
            LET dispatched == InDispatchOrder(eng_results[j])
            IN  eng_report[j][1] =
                    build_report(j, RepoInfo(AnalyzeRequest("zip", << >>)), << >>,
                                 [n \in 1..Len(dispatched) |-> TaskResult(dispatched[n])])

\* a report of two results whose runs completed in the reverse of dispatch
C40_Witness ==
    \E j \in PoolJobs :
        /\ eng_report[j] # None
        /\ eng_results[j] = << 1, 2 >>
        /\ CompletedAt(<< j, 2 >>) < CompletedAt(<< j, 1 >>)

====
